---- MODULE Spec2Model ----
(***************************************************************************)
(* Verification model of tracklistify's identification pipeline core.      *)
(*                                                                         *)
(* Part 1: the rate limiter and circuit breaker                            *)
(* (src/src/tracklistify/utils/rate_limiter.py, class RateLimiter).        *)
(*                                                                         *)
(* Time is counted in clock ticks of 10 ms: the sleep between two token    *)
(* polls (asyncio.sleep(0.01)) is one tick, one second is TicksPerSecond   *)
(* ticks.  One provider is modelled (providers share no state); its limits *)
(* are drawn at registration.  Each task of Tasks is a coroutine that      *)
(* calls acquire, and release after a granted acquire; the circuit-breaker *)
(* report (_update_circuit_breaker) is called by the environment.          *)
(*                                                                         *)
(* Spec is admission control with the circuit closed (slots, tokens,       *)
(* timeouts, refill over half minutes); CircuitSpec adds the reports, the  *)
(* alert callbacks and the reset timeout, with short acquire timeouts.     *)
(*                                                                         *)
(* Part 2: the file cache (src/src/tracklistify/cache: base.py BaseCache,  *)
(* storage.py JSONStorage, index.py CacheIndex, invalidation.py).          *)
(*                                                                         *)
(* The cache clock counts milliseconds.  The directory is a map from file  *)
(* names to file contents, the index file is cache.index.json, the index   *)
(* is CacheIndex._index of the running storage instance.  CacheSpec runs   *)
(* the BaseCache operations one after the other, with restarts of the      *)
(* process; RebuildSpec starts from a directory left behind by a crash and *)
(* loads the index; StorageSpec interleaves the steps of concurrent        *)
(* operations at the awaits of the file I/O.                               *)
(*                                                                         *)
(* Part 3: the track matcher (src/src/tracklistify/core/track.py, classes  *)
(* Track and TrackMatcher) and the identification manager                  *)
(* (src/src/tracklistify/utils/identification.py).                         *)
(*                                                                         *)
(* A track is a record of its four compared fields; time_in_mix "HH:MM:SS" *)
(* is the tuple <<HH, MM, SS>>.  MatcherSpec calls add_track and           *)
(* get_unique_tracks on one TrackMatcher; IdentifySpec runs                *)
(* identify_tracks on one IdentificationManager, one loop pass per step,   *)
(* the provider's answer to each segment chosen by the environment.        *)
(* MergeSpec assigns a list to TrackMatcher.tracks, as the tests do, and   *)
(* calls merge_nearby_tracks.                                              *)
(*                                                                         *)
(* Part 4: further runs of the parts above, and split_audio                *)
(* (src/src/tracklistify/core/base.py).                                    *)
(*                                                                         *)
(* RefillSpec polls the token bucket of a provider registered with the     *)
(* shazam defaults at chosen times; ReleaseSpec adds release calls that    *)
(* follow no granted acquire, RegisterSpec adds register_provider for the  *)
(* registered provider; FailSpec lets the file operations of a set fail.   *)
(* SplitSpec runs the segment-parameter loop of split_audio over validated *)
(* configurations, times in half seconds; SplitLiveSpec adds that the loop *)
(* keeps running.                                                          *)
(***************************************************************************)
EXTENDS Integers, Sequences, FiniteSets, TLC

\* ---------------------------------------------------------------- bounds
\* the coroutines that call acquire
Tasks == {1, 2, 3}

\* the tasks that call acquire in CircuitSpec
CircuitTasks == {1, 2}

\* register_provider draws max_requests_per_minute from 1..MaxRpm
MaxRpm == 2

\* and max_concurrent_requests from 1..MaxConcurrent
MaxConcurrent == 2

\* acquire calls made in Spec
MaxCalls == 3

\* acquire calls made in CircuitSpec
MaxCircuitCalls == 2

\* cap on consecutive_failures
MaxFailures == 3

\* alert callbacks registered
MaxCallbacks == 2

\* the longest acquire timeout, in ticks
MaxTimeout == 3

\* minutes of clock time explored
MaxMinutes == 1

\* the clock at registration (time.time() is positive)
T0 == 1

\* ------------------------------------------------------ program constants
\* clock ticks per second: asyncio.sleep(0.01) is one tick
TicksPerSecond == 100

PollInterval == 1

\* "if elapsed >= 1.0": refill at most once per second
RefillPeriodSeconds == 1

\* max_requests_per_minute / 60
SecondsPerMinute == 60

\* RATE_LIMIT_DETECTION_THRESHOLD_SECONDS = 0.001, in milliseconds
RATE_LIMIT_DETECTION_THRESHOLD_MS == 1

\* getattr(self._config, "circuit_breaker_reset_timeout", 60.0), in seconds
circuit_reset_timeout == 60

\* self._config.circuit_breaker_threshold (2 in test_circuit_breaker)
circuit_threshold == 2

\* Optional[float] = None
None == -1

Minute == SecondsPerMinute * TicksPerSecond

ResetTicks == circuit_reset_timeout * TicksPerSecond

MaxTime == T0 + MaxMinutes * Minute + 2 * MaxTimeout + 2

Timeouts == {1, MaxTimeout}

\* ------------------------------------------------------------------ state
VARIABLES
    now,                     \* time.time()
    max_requests_per_minute, \* ProviderLimits
    max_concurrent_requests,
    tokens,
    last_update,
    semaphore,               \* free slots of limits.semaphore
    circuit_state,
    circuit_open_time,
    consecutive_failures,
    total_requests,          \* RateLimitMetrics
    rate_limited_requests,
    total_wait_time,
    last_rate_limit,
    rate_limit_windows,
    circuit_trips,
    last_circuit_trip,
    alert_calls,             \* one entry per registered alert callback: times invoked
    pc,                      \* per task: position inside acquire / holding a slot
    timeout,                 \* per task: acquire's timeout argument
    start_time,              \* per task: acquire's start_time
    token_wait_start,        \* per task: acquire's token_wait_start
    sleep_until,             \* per task: end of the pending asyncio.sleep
    calls,                   \* history: number of acquire calls made
    circuit_denials,         \* history: number of them denied by the open circuit
    probe_time,              \* history: when the circuit went half-open, until the next report
    grant_times,             \* history: the times, within the last minute, at which acquire returned True
    fails_since_success,     \* history: failures reported since the last reported success
    refilled,                \* history: the tokens _refill_tokens has added since
                             \* registration, and whether the cap cut an addition
    last                     \* history: the operation that just acted and its outcome


\* ------------------------------------------------------------ cache bounds
\* the string keys the callers use ("" is the empty key)
CacheKeys == {"", "a"}

\* BaseCache operations made in CacheSpec
MaxCacheOps == 4

\* BaseCache operations and restarts made in RestartSpec
MaxRestartOps == 5

\* set calls among them
MaxCacheSets == 2

\* storage operations made in RebuildSpec
MaxRebuildOps == 2

\* clock advances made
MaxCacheTicks == 2

\* the ttl argument of set, default_ttl / max_age of the strategies and the
\* max_age argument of cleanup, in seconds
CacheSeconds == 1

\* SizeStrategy(max_size), in bytes
CacheMaxSize == 4

\* ------------------------------------------------- cache program constants
\* time.time() is in seconds; the cache clock counts milliseconds
MsPerSecond == 1000

\* "return age < (self.max_age - 0.001)", in milliseconds
LRU_BUFFER_MS == 1

\* len(json.dumps(s)) of a string s of plain characters: the two quotes
JSON_QUOTES == 2

\* --------------------------------------------------------------- cache state
VARIABLES
    clock,          \* time.time() of the cache, in milliseconds
    strategy,       \* BaseCache._invalidation_strategy
    files,          \* the *.cache files of the cache directory: name -> content
    temp_files,     \* the *.cache.tmp files of the cache directory: name -> content
    index_file,     \* cache.index.json
    index,          \* CacheIndex._index
    index_loaded,   \* JSONStorage._index_loaded
    dirty,          \* CacheIndex._dirty
    stats,          \* BaseCache._stats
    cache_ops,      \* history: operations and restarts made
    cache_sets,     \* history: set calls among them
    cache_ticks,    \* history: clock advances made
    expected,       \* history: per key, what the callers stored last and when
    cache_last,     \* history: the cache operation that just acted and its outcome
    cache_tasks,    \* per asyncio task: its BaseCache call and where it is suspended
    key_locks,      \* JSONStorage._locks: per key the holder and the FIFO of waiters
    task_calls,     \* history: calls begun by the tasks
    started         \* history: per key, the values of the set calls begun

taskVars == <<cache_tasks, key_locks, task_calls, started>>

VARIABLES
    tracks,         \* TrackMatcher.tracks, the working set
    min_confidence, \* TrackMatcher._min_confidence
    max_duplicates, \* TrackMatcher.max_duplicates
    arrivals,       \* history: the tracks handed to add_track, in call order
    matcher_last    \* history: the matcher call that just acted, the working set
                    \* before it and the list it returned

matcherVars == <<tracks, min_confidence, max_duplicates, arrivals, matcher_last>>

VARIABLES
    id_config,      \* IdentificationManager.config: the provider settings
    id_call,        \* the identify_tracks call in progress: its segments, the
                    \* index of the next one, identified_tracks and, as history,
                    \* the working set it started from
    provider_calls, \* history: the provider.identify_track calls made, in order
    id_results,     \* history: per identify_tracks call, in call order, its
                    \* segments, the working set it started from and the list
                    \* it returned
    id_last         \* history: the provider result of the segment just processed

managerVars == <<id_config, id_call, provider_calls, id_results, id_last>>

VARIABLES
    segment_length,     \* config.segment_length, in seconds
    overlap_duration,   \* config.overlap_duration, in seconds
    split_pc,           \* split_audio: not called, in the parameter loop, past it
    duration,           \* audio.info.length, in half seconds
    current_time,       \* in half seconds
    segment_params      \* per segment: start_time, length, and the -ss and -t
                        \* arguments of ffmpeg, in half seconds

splitVars == <<segment_length, overlap_duration, split_pc, duration, current_time,
               segment_params>>

\* the variables of the track matcher, the identification manager and
\* split_audio
pipelineVars == <<matcherVars, managerVars, splitVars>>

\* the variables of the cache alone
storeVars == <<clock, strategy, files, temp_files, index_file, index, index_loaded,
               dirty, stats, cache_ops, cache_sets, cache_ticks, expected, cache_last,
               taskVars>>

cacheVars == <<storeVars, pipelineVars>>

vars == <<now, max_requests_per_minute, max_concurrent_requests, tokens, last_update,
          semaphore, circuit_state, circuit_open_time, consecutive_failures,
          total_requests, rate_limited_requests, total_wait_time, last_rate_limit,
          rate_limit_windows, circuit_trips, last_circuit_trip, alert_calls,
          pc, timeout, start_time, token_wait_start, sleep_until,
          calls, circuit_denials, probe_time, grant_times, fails_since_success, refilled,
          last, cacheVars>>

\* the variables of the rate limiter alone
limiterVars == <<now, max_requests_per_minute, max_concurrent_requests, tokens,
                 last_update, semaphore, circuit_state, circuit_open_time,
                 consecutive_failures, total_requests, rate_limited_requests,
                 total_wait_time, last_rate_limit, rate_limit_windows, circuit_trips,
                 last_circuit_trip, alert_calls, pc, timeout, start_time,
                 token_wait_start, sleep_until, calls, circuit_denials, probe_time,
                 grant_times, fails_since_success, refilled, last>>

rateVars == <<limiterVars, pipelineVars>>

limitsVars == <<max_requests_per_minute, max_concurrent_requests>>

bucketVars == <<tokens, last_update, refilled>>

circuitVars == <<circuit_state, circuit_open_time, consecutive_failures,
                 circuit_trips, last_circuit_trip, alert_calls, fails_since_success,
                 circuit_denials, probe_time>>

waitMetricVars == <<rate_limited_requests, last_rate_limit, rate_limit_windows>>

localVars == <<timeout, start_time, token_wait_start, sleep_until>>

NoOp == [op |-> "init", task |-> 0, res |-> "none", elapsed |-> 0, timeout |-> 0]

Op(o, t, r, e, to) == [op |-> o, task |-> t, res |-> r, elapsed |-> e, timeout |-> to]

\* Python truthiness of an Optional[float]
Truthy(x) == x /= None /\ x /= 0

Min(a, b) == IF a <= b THEN a ELSE b

\* ------------------------------------------------------- pure helpers
\* a refill that lets the bucket grow past its cap
RefillTokens_Uncapped(tok, lu, t, rpm) ==
    LET elapsed == t - lu
        tokens_to_add == (elapsed * rpm) \div (SecondsPerMinute * TicksPerSecond)
    IN  IF elapsed >= RefillPeriodSeconds * TicksPerSecond /\ tokens_to_add > 0
        THEN [tokens |-> tok + tokens_to_add, last_update |-> t]
        ELSE [tokens |-> tok, last_update |-> lu]

\* _refill_tokens: the pair (tokens, last_update) after a refill at time t
RefillTokens(tok, lu, t, rpm) ==
    LET elapsed == t - lu
        tokens_to_add == (elapsed * rpm) \div (SecondsPerMinute * TicksPerSecond)
    IN  IF elapsed >= RefillPeriodSeconds * TicksPerSecond /\ tokens_to_add > 0
        THEN [tokens |-> Min(rpm, tok + tokens_to_add), last_update |-> t]
        ELSE [tokens |-> tok, last_update |-> lu]

\* _refill_tokens: tokens_to_add at time t, 0 when the refill is skipped
TokensToAdd(lu, t, rpm) ==
    IF t - lu >= RefillPeriodSeconds * TicksPerSecond
    THEN ((t - lu) * rpm) \div (SecondsPerMinute * TicksPerSecond)
    ELSE 0

\* a circuit check that lets every call through once the circuit has opened
CircuitCheck_NeverDenies(state, open_time, t) ==
    IF state = "open" THEN "half_open" ELSE state

\* the circuit check at the head of acquire: "deny", or the state to go on with
CircuitCheck(state, open_time, t) ==
    IF state = "open"
    THEN IF Truthy(open_time) /\ t - open_time > ResetTicks
         THEN "half_open"
         ELSE "deny"
    ELSE state

\* "wait_time >= RATE_LIMIT_DETECTION_THRESHOLD_SECONDS"
WaitedForToken(wait) ==
    wait * 1000 >= RATE_LIMIT_DETECTION_THRESHOLD_MS * TicksPerSecond

\* a token timeout that gives the slot back twice
SlotsAfterTokenTimeout_Twice(sem) == sem + 2

\* a token timeout that keeps the slot
SlotsAfterTokenTimeout_Keeps(sem) == sem

\* the concurrency slots after acquire's token wait timed out
SlotsAfterTokenTimeout(sem) == sem + 1

\* total_requests after acquire got its concurrency slot
CountRequest(n) == n + 1

\* a success report that leaves the failure count alone
CircuitOnSuccess_KeepsCount(state, failures) ==
    [state |-> IF state = "half_open" THEN "closed" ELSE state, failures |-> failures]

\* _update_circuit_breaker(provider, True)
CircuitOnSuccess(state, failures) ==
    [state |-> IF state = "half_open" THEN "closed" ELSE state, failures |-> 0]

\* a trip test that needs one failure more than the threshold
CircuitTrips_Strict(state, failures) ==
    failures > circuit_threshold /\ state = "closed"

\* _update_circuit_breaker(provider, False): does the circuit trip?
CircuitTrips(state, failures) ==
    failures >= circuit_threshold /\ state = "closed"

\* ------------------------------------------------------------ cache: data
\* _get_file_path: sha256(key).hexdigest() + ".cache"; six hex digits stand
\* for the sixty-four
Hash(k) ==
    CASE k = ""  -> "e3b0c4.cache"
      [] k = "a" -> "ca9781.cache"

FileNames == {Hash(k) : k \in CacheKeys}

\* a key argument: a Python object that is a str or is not
StrKey(s) == [isstr |-> TRUE, val |-> s]

\* the key 123 of test_cache_error_handling
IntKey == [isstr |-> FALSE, val |-> "123"]

\* a value argument: JSON serializable or not
JsonValue(s) == [json |-> TRUE, val |-> s]

\* the value "lambda: None" of test_cache_error_handling
LambdaValue == [json |-> FALSE, val |-> "lambda"]

\* get returning None
Absent == "None"

\* len(json.dumps(value)) of a string value
JsonLen(v) == Len(v) + JSON_QUOTES

NoEntry == [kind |-> "none"]

\* the CacheEntry dict that BaseCache.set builds
CacheEntry(k, v, created, accessed, ttl, compression) ==
    [kind |-> "entry", key |-> k, value |-> v, created |-> created,
     last_accessed |-> accessed, ttl |-> ttl, compression |-> compression,
     size |-> JsonLen(v)]

\* a path that does not exist
NoFile == [kind |-> "none"]

\* file contents: zlib says that the bytes start with ZLIB_HEADER, intact that
\* zlib.decompress succeeds on them, parses that json.loads succeeds on the text
FileBytes(zlib, intact, parses, obj) ==
    [kind |-> "bytes", zlib |-> zlib, intact |-> intact, parses |-> parses, obj |-> obj]

\* a file cut short inside its JSON text
BadJson == FileBytes(FALSE, TRUE, FALSE, NoEntry)

\* a compressed file cut short: the header is there, the stream is truncated
BadZlib == FileBytes(TRUE, FALSE, FALSE, NoEntry)

NoIdx == [kind |-> "none"]

\* the dict that add_entry and _rebuild_index store under a key
IndexEntry(filename, created, accessed, ttl, compression) ==
    [kind |-> "idx", filename |-> filename, created |-> created,
     last_accessed |-> accessed, ttl |-> ttl, compression |-> compression]

\* self._index = {}
EmptyIndex == [k \in CacheKeys |-> NoIdx]

NoIndexFile == [kind |-> "none"]

\* a cache.index.json that json.loads rejects
CorruptIndexFile == [kind |-> "corrupt"]

\* the cache.index.json that save writes
SavedIndex(idx) == [kind |-> "json", index |-> idx]

\* BaseCache._stats (total_size_bytes is never written)
ZeroStats == [hits |-> 0, misses |-> 0, invalidations |-> 0, entries |-> 0]

TTLStrategy(default_ttl) == [kind |-> "ttl", param |-> default_ttl]

LRUStrategy(max_age) == [kind |-> "lru", param |-> max_age]

SizeStrategy(max_size) == [kind |-> "size", param |-> max_size]

\* history: nothing stored under a key
Unstored == [value |-> Absent, created |-> 0, accessed |-> 0, ttl |-> None,
             restarted |-> FALSE]

NoCacheOp == [op |-> "init", key |-> "", isstr |-> TRUE, res |-> Absent,
              found |-> FALSE, valid |-> FALSE, max_age |-> 0]

\* the asyncio tasks that share one BaseCache
StorageTasks == {"t1", "t2", "t3"}

NoTask == "none"

\* a task outside every cache call; op, key and res keep its last call
IdleTask == [pc |-> "idle", want |-> "idle", op |-> "none", key |-> "",
             entry |-> NoEntry, res |-> Absent]

\* asyncio.Lock(): unlocked, nobody waiting
FreeLock == [holder |-> NoTask, waiters |-> <<>>]

\* JSONStorage.__init__ and BaseCache.__init__ over an empty directory
EmptyCache ==
    /\ clock = 0
    /\ files = [f \in FileNames |-> NoFile]
    /\ temp_files = [f \in FileNames |-> NoFile]
    /\ index_file = NoIndexFile
    /\ index = EmptyIndex
    /\ index_loaded = FALSE
    /\ dirty = FALSE
    /\ stats = ZeroStats
    /\ cache_ops = 0
    /\ cache_sets = 0
    /\ cache_ticks = 0
    /\ expected = [k \in CacheKeys |-> Unstored]
    /\ cache_last = NoCacheOp
    /\ cache_tasks = [t \in StorageTasks |-> IdleTask]
    /\ key_locks = [k \in CacheKeys |-> FreeLock]
    /\ task_calls = 0
    /\ started = [k \in CacheKeys |-> {}]

\* no call of the matcher made yet
NoMatcherOp == [op |-> "init", track |-> <<>>, before |-> <<>>, out |-> <<>>]

\* config.max_duplicates (TrackIdentificationConfig default)
max_duplicates_default == 2

\* TrackMatcher.__init__
EmptyMatcher ==
    /\ tracks = <<>>
    /\ max_duplicates = max_duplicates_default
    /\ arrivals = <<>>
    /\ matcher_last = NoMatcherOp

\* TrackIdentificationConfig: the provider settings and their defaults
ProviderConfig(fallback_enabled, fallback_providers) ==
    [primary_provider |-> "shazam", fallback_enabled |-> fallback_enabled,
     fallback_providers |-> fallback_providers]

DefaultProviderConfig == ProviderConfig(FALSE, <<>>)

\* no identify_tracks call in progress
NoCall ==
    [state |-> "idle", provider |-> "", segments |-> <<>>, pos |-> 1,
     identified_tracks |-> <<>>, before |-> <<>>]

\* no segment processed yet
NoSegment == [segment |-> <<>>, result |-> <<>>, before |-> <<>>]

\* IdentificationManager.__init__ before the first identify_tracks call
ManagerAtRest ==
    /\ id_call = NoCall
    /\ provider_calls = <<>>
    /\ id_results = <<>>
    /\ id_last = NoSegment

\* segment_length: int = field(default=60)
segment_length_default == 60

\* overlap_duration: int = field(default=10)
overlap_duration_default == 10

\* split_audio not called
NotSplitting ==
    /\ split_pc = "idle"
    /\ duration = 0
    /\ current_time = 0
    /\ segment_params = <<>>

\* the default configuration, split_audio not called
SplitAtRest ==
    /\ segment_length = segment_length_default
    /\ overlap_duration = overlap_duration_default
    /\ NotSplitting

\* IdentificationManager.__init__: a new TrackMatcher, which keeps every track
\* ("self._min_confidence = 0")
PipelineAtRest ==
    /\ min_confidence = 0
    /\ EmptyMatcher
    /\ id_config = DefaultProviderConfig
    /\ ManagerAtRest
    /\ SplitAtRest

\* the cache of the "cache" fixture of test_cache.py: TTLStrategy()
CacheAtRest == strategy = TTLStrategy(None) /\ EmptyCache

\* ------------------------------------------------------------------- Init
\* no token added since registration
NothingRefilled == [added |-> 0, capped |-> FALSE]

\* the rate limiter after register_provider
RateLimiterInit ==
    /\ now = T0
    /\ max_requests_per_minute \in 1..MaxRpm
    /\ max_concurrent_requests \in 1..MaxConcurrent
    /\ tokens = max_requests_per_minute
    /\ last_update = T0
    /\ semaphore = max_concurrent_requests
    /\ circuit_state = "closed"
    /\ circuit_open_time = None
    /\ consecutive_failures = 0
    /\ total_requests = 0
    /\ rate_limited_requests = 0
    /\ total_wait_time = 0
    /\ last_rate_limit = None
    /\ rate_limit_windows = <<>>
    /\ circuit_trips = 0
    /\ last_circuit_trip = None
    /\ alert_calls = <<>>
    /\ pc = [t \in Tasks |-> "idle"]
    /\ timeout = [t \in Tasks |-> 0]
    /\ start_time = [t \in Tasks |-> 0]
    /\ token_wait_start = [t \in Tasks |-> 0]
    /\ sleep_until = [t \in Tasks |-> 0]
    /\ calls = 0
    /\ circuit_denials = 0
    /\ probe_time = None
    /\ grant_times = <<>>
    /\ fails_since_success = 0
    /\ refilled = NothingRefilled
    /\ last = NoOp

Init == RateLimiterInit /\ CacheAtRest /\ PipelineAtRest

\* the rate limiter after register_provider(provider, rpm, concurrent)
NewLimiter(rpm, concurrent) ==
    /\ now = T0
    /\ max_requests_per_minute = rpm
    /\ max_concurrent_requests = concurrent
    /\ tokens = rpm
    /\ last_update = T0
    /\ semaphore = concurrent
    /\ circuit_state = "closed"
    /\ circuit_open_time = None
    /\ consecutive_failures = 0
    /\ total_requests = 0
    /\ rate_limited_requests = 0
    /\ total_wait_time = 0
    /\ last_rate_limit = None
    /\ rate_limit_windows = <<>>
    /\ circuit_trips = 0
    /\ last_circuit_trip = None
    /\ alert_calls = <<>>
    /\ pc = [t \in Tasks |-> "idle"]
    /\ timeout = [t \in Tasks |-> 0]
    /\ start_time = [t \in Tasks |-> 0]
    /\ token_wait_start = [t \in Tasks |-> 0]
    /\ sleep_until = [t \in Tasks |-> 0]
    /\ calls = 0
    /\ circuit_denials = 0
    /\ probe_time = None
    /\ grant_times = <<>>
    /\ fails_since_success = 0
    /\ refilled = NothingRefilled
    /\ last = NoOp

\* ---------------------------------------------------------------- actions
\* register_alert_callback
RegisterAlertCallback ==
    /\ Len(alert_calls) < MaxCallbacks
    /\ alert_calls' = Append(alert_calls, 0)
    /\ last' = Op("register_alert_callback", 0, "none", 0, 0)
    /\ UNCHANGED <<now, limitsVars, cacheVars, bucketVars, semaphore, circuit_state,
                   circuit_open_time, consecutive_failures, total_requests,
                   waitMetricVars, total_wait_time, circuit_trips, last_circuit_trip,
                   pc, localVars, calls, circuit_denials, probe_time, grant_times,
                   fails_since_success>>

\* acquire, from the call to the wait for the concurrency slot
AcquireCall(t, to) ==
    /\ pc[t] = "idle"
    /\ \A u \in Tasks : u < t => pc[u] /= "idle"
    /\ calls' = calls + 1
    /\ LET c == CircuitCheck(circuit_state, circuit_open_time, now)
       IN  IF c = "deny"
           THEN /\ last' = Op("acquire", t, "denied_circuit", 0, to)
                /\ circuit_denials' = circuit_denials + 1
                /\ UNCHANGED <<circuit_state, pc, localVars, probe_time>>
           ELSE /\ circuit_state' = c
                /\ probe_time' = IF c /= circuit_state THEN now ELSE probe_time
                /\ UNCHANGED circuit_denials
                /\ pc' = [pc EXCEPT ![t] = "sem_wait"]
                /\ timeout' = [timeout EXCEPT ![t] = to]
                /\ start_time' = [start_time EXCEPT ![t] = now]
                /\ last' = Op("acquire", t, "waiting", 0, to)
                /\ UNCHANGED <<token_wait_start, sleep_until>>
    /\ UNCHANGED <<now, limitsVars, cacheVars, bucketVars, semaphore, circuit_open_time,
                   consecutive_failures, total_requests, waitMetricVars,
                   total_wait_time, circuit_trips, last_circuit_trip, alert_calls,
                   grant_times, fails_since_success>>

\* acquire's token loop, from the loop test to the next sleep or the return;
\* tws is token_wait_start and sem the free slots when the loop test is made
TokenPoll(t, tws, sem) ==
    IF now - tws < timeout[t]
    THEN LET r == RefillTokens(tokens, last_update, now, max_requests_per_minute)
         IN  /\ last_update' = r.last_update
             /\ refilled' =
                    [added |-> refilled.added + (r.tokens - tokens),
                     capped |-> \/ refilled.capped
                                \/ r.tokens - tokens
                                       < TokensToAdd(last_update, now, max_requests_per_minute)]
             /\ semaphore' = sem
             /\ IF r.tokens > 0
                THEN /\ tokens' = r.tokens - 1
                     /\ IF WaitedForToken(now - tws)
                        THEN /\ rate_limited_requests' = rate_limited_requests + 1
                             /\ last_rate_limit' = now
                             /\ rate_limit_windows' =
                                    Append(rate_limit_windows, <<tws, now>>)
                        ELSE UNCHANGED waitMetricVars
                     /\ pc' = [pc EXCEPT ![t] = "granted"]
                     /\ grant_times' = Append(grant_times, now)
                     /\ last' = Op("acquire", t, "granted", now - start_time[t], timeout[t])
                     /\ UNCHANGED sleep_until
                ELSE /\ tokens' = r.tokens
                     /\ pc' = [pc EXCEPT ![t] = "sleeping"]
                     /\ sleep_until' = [sleep_until EXCEPT ![t] = now + PollInterval]
                     /\ last' = Op("acquire", t, "polling", now - start_time[t], timeout[t])
                     /\ UNCHANGED <<waitMetricVars, grant_times>>
    ELSE /\ last_rate_limit' = now
         /\ rate_limit_windows' = Append(rate_limit_windows, <<tws, now>>)
         /\ semaphore' = SlotsAfterTokenTimeout(sem)
         /\ pc' = [pc EXCEPT ![t] = "idle"]
         /\ last' = Op("acquire", t, "denied_tokens", now - start_time[t], timeout[t])
         /\ UNCHANGED <<bucketVars, rate_limited_requests, sleep_until, grant_times>>

\* acquire, resumed with the concurrency slot: counts the request and makes the
\* first pass of the token loop
SemAcquired(t) ==
    /\ pc[t] = "sem_wait"
    /\ semaphore > 0
    /\ now - start_time[t] < timeout[t]
    /\ total_wait_time' = total_wait_time + (now - start_time[t])
    /\ total_requests' = CountRequest(total_requests)
    /\ token_wait_start' = [token_wait_start EXCEPT ![t] = now]
    /\ TokenPoll(t, now, semaphore - 1)
    /\ UNCHANGED <<now, limitsVars, cacheVars, circuitVars, timeout, start_time, calls>>

\* acquire, asyncio.TimeoutError out of the wait for the concurrency slot
SemTimeout(t) ==
    /\ pc[t] = "sem_wait"
    /\ now - start_time[t] >= timeout[t]
    /\ pc' = [pc EXCEPT ![t] = "idle"]
    /\ last' = Op("acquire", t, "denied_slot", now - start_time[t], timeout[t])
    /\ UNCHANGED <<now, limitsVars, cacheVars, bucketVars, semaphore, circuitVars, total_requests,
                   waitMetricVars, total_wait_time, localVars, calls, grant_times>>

\* acquire, resumed from asyncio.sleep(0.01): the next pass of the token loop
Poll(t) ==
    /\ pc[t] = "sleeping"
    /\ now >= sleep_until[t]
    /\ TokenPoll(t, token_wait_start[t], semaphore)
    /\ UNCHANGED <<now, limitsVars, cacheVars, circuitVars, total_requests, total_wait_time,
                   timeout, start_time, token_wait_start, calls>>

\* release, called by the task that holds a granted admission
Release(t) ==
    /\ pc[t] = "granted"
    /\ semaphore' = semaphore + 1
    /\ pc' = [pc EXCEPT ![t] = "idle"]
    /\ last' = Op("release", t, "none", 0, 0)
    /\ UNCHANGED <<now, limitsVars, cacheVars, bucketVars, circuitVars, total_requests,
                   waitMetricVars, total_wait_time, localVars, calls, grant_times>>

\* _update_circuit_breaker(provider, True)
ReportSuccess ==
    /\ LET c == CircuitOnSuccess(circuit_state, consecutive_failures)
       IN  /\ circuit_state' = c.state
           /\ consecutive_failures' = c.failures
    /\ fails_since_success' = 0
    /\ probe_time' = None
    /\ last' = Op("report", 0, "success", 0, 0)
    /\ UNCHANGED <<now, limitsVars, cacheVars, bucketVars, semaphore, circuit_open_time,
                   total_requests, waitMetricVars, total_wait_time, circuit_trips,
                   last_circuit_trip, alert_calls, pc, localVars, calls,
                   circuit_denials, grant_times>>

\* _update_circuit_breaker(provider, False)
ReportFailure ==
    /\ consecutive_failures < MaxFailures
    /\ consecutive_failures' = consecutive_failures + 1
    /\ fails_since_success' = fails_since_success + 1
    /\ IF CircuitTrips(circuit_state, consecutive_failures + 1)
       THEN /\ circuit_state' = "open"
            /\ circuit_open_time' = now
            /\ circuit_trips' = circuit_trips + 1
            /\ last_circuit_trip' = now
            /\ alert_calls' = [i \in 1..Len(alert_calls) |-> alert_calls[i] + 1]
       ELSE UNCHANGED <<circuit_state, circuit_open_time, circuit_trips,
                        last_circuit_trip, alert_calls>>
    /\ probe_time' = None
    /\ last' = Op("report", 0, "failure", 0, 0)
    /\ UNCHANGED <<now, limitsVars, cacheVars, bucketVars, semaphore, total_requests,
                   waitMetricVars, total_wait_time, pc, localVars, calls,
                   circuit_denials, grant_times>>

\* a task is suspended inside acquire
Waiting(t) == pc[t] \in {"sem_wait", "sleeping"}

\* the time at which the suspended task t is due to resume at the latest
Deadline(t) ==
    IF pc[t] = "sem_wait" THEN start_time[t] + timeout[t] ELSE sleep_until[t]

\* the clock advances: a task that waits for a slot takes a free one before
\* any time passes, a suspended task resumes when its timer is due, and the
\* clock moves in poll-sized steps only while some task is suspended
Tick(d) ==
    /\ now + d <= MaxTime
    /\ \A t \in Tasks : pc[t] = "sem_wait" => semaphore = 0
    /\ \A t \in Tasks : Waiting(t) => now + d <= Deadline(t)
    /\ d = PollInterval => \E t \in Tasks : Waiting(t)
    /\ now' = now + d
    /\ grant_times' = SelectSeq(grant_times, LAMBDA g : now + d - g < Minute)
    /\ last' = Op("tick", 0, "none", 0, 0)
    /\ UNCHANGED <<limitsVars, cacheVars, bucketVars, semaphore, circuitVars, total_requests,
                   waitMetricVars, total_wait_time, pc, localVars, calls>>

\* admission control with the circuit closed: slots, tokens and timeouts
Next ==
    \/ \E t \in Tasks, to \in Timeouts : calls < MaxCalls /\ AcquireCall(t, to)
    \/ \E t \in Tasks : SemAcquired(t)
    \/ \E t \in Tasks : SemTimeout(t)
    \/ \E t \in Tasks : Poll(t)
    \/ \E t \in Tasks : Release(t)
    \/ \E d \in {PollInterval, Minute \div 2} : Tick(d)

Spec == Init /\ [][Next]_vars

\* the circuit breaker: reports, alerts, the reset timeout and the admissions
\* that go through the circuit check
CircuitNext ==
    \/ RegisterAlertCallback
    \/ \E t \in CircuitTasks : calls < MaxCircuitCalls /\ AcquireCall(t, PollInterval)
    \/ \E t \in Tasks : SemAcquired(t)
    \/ \E t \in Tasks : SemTimeout(t)
    \/ \E t \in Tasks : Poll(t)
    \/ \E t \in Tasks : Release(t)
    \/ ReportSuccess
    \/ ReportFailure
    \/ \E d \in {PollInterval, ResetTicks + 1} : Tick(d)

CircuitSpec == Init /\ [][CircuitNext]_vars


\* the token bucket of a provider registered with the shazam defaults, polled
\* by one task at times of its choice: an acquire with the shortest timeout
\* makes one pass of the token loop when it is called
\* bound: acquire calls made in RefillSpec
MaxRefillCalls == 4

\* bound: seconds of clock time explored in RefillSpec
MaxRefillSeconds == 15

\* getattr(self._config, "shazam_max_rpm", 25)
shazam_max_rpm == 25

\* getattr(self._config, "shazam_max_concurrent", 1)
shazam_max_concurrent == 1

\* the waits between two calls, in ticks: 1 s, 2.4 s (one token at 25 per
\* minute) and 4.79 s
RefillWaits == {100, 240, 479}

RefillInit ==
    /\ NewLimiter(shazam_max_rpm, shazam_max_concurrent)
    /\ CacheAtRest
    /\ PipelineAtRest

RefillNext ==
    \/ calls < MaxRefillCalls /\ AcquireCall(1, PollInterval)
    \/ SemAcquired(1)
    \/ Release(1)
    \/ \E d \in RefillWaits :
           now + d <= T0 + MaxRefillSeconds * TicksPerSecond /\ Tick(d)

RefillSpec == RefillInit /\ [][RefillNext]_vars


\* release calls that no granted acquire precedes, and register_provider for
\* a provider that is registered
\* bound: slots that release calls without an admission may add
MaxSurplus == 1

\* release, called by a task that holds no admission (after a denied acquire,
\* or twice for one admission): the provider is registered, so the
\* semaphore is released
StrayRelease(t) ==
    /\ pc[t] = "idle"
    /\ \A u \in Tasks : u < t => pc[u] /= "idle"
    /\ semaphore < max_concurrent_requests + MaxSurplus
    /\ semaphore' = semaphore + 1
    /\ last' = Op("release", t, "none", 0, 0)
    /\ UNCHANGED <<now, limitsVars, cacheVars, bucketVars, circuitVars, total_requests,
                   waitMetricVars, total_wait_time, pc, localVars, calls, grant_times>>

ReleaseNext ==
    \/ Next
    \/ \E t \in Tasks : StrayRelease(t)

ReleaseSpec == Init /\ [][ReleaseNext]_vars

\* register_provider(provider, rpm, concurrent) for the registered provider,
\* called while no acquire is suspended: a new ProviderLimits replaces the old
\* one, the admissions granted before stay with their callers
RegisterProvider(rpm, concurrent) ==
    /\ \A t \in Tasks : pc[t] \in {"idle", "granted"}
    /\ max_requests_per_minute' = rpm
    /\ max_concurrent_requests' = concurrent
    /\ tokens' = rpm
    /\ last_update' = now
    /\ semaphore' = concurrent
    /\ circuit_state' = "closed"
    /\ circuit_open_time' = None
    /\ consecutive_failures' = 0
    /\ total_requests' = 0
    /\ rate_limited_requests' = 0
    /\ total_wait_time' = 0
    /\ last_rate_limit' = None
    /\ rate_limit_windows' = <<>>
    /\ circuit_trips' = 0
    /\ last_circuit_trip' = None
    /\ refilled' = NothingRefilled
    /\ last' = Op("register_provider", 0, "none", 0, 0)
    /\ UNCHANGED <<now, cacheVars, alert_calls, pc, localVars, calls, circuit_denials,
                   probe_time, grant_times, fails_since_success>>

RegisterNext ==
    \/ Next
    \/ \E rpm \in 1..MaxRpm, concurrent \in 1..MaxConcurrent :
           RegisterProvider(rpm, concurrent)

RegisterSpec == Init /\ [][RegisterNext]_vars

\* ------------------------------------------------- cache: pure operators
Max(a, b) == IF a >= b THEN a ELSE b

\* the storage instance and its directory, as one value
Store == [files |-> files, index_file |-> index_file, index |-> index,
          loaded |-> index_loaded, dirty |-> dirty]

\* JSONStorage.set: json.dumps(entry).encode("utf-8"), zlib.compress if asked
Encode(entry, compression) == FileBytes(compression, TRUE, TRUE, entry)

\* a decoder that never decompresses: compressed bytes are no JSON text
Decode_NoDecompress(data) ==
    IF data.zlib
    THEN [err |-> "json", obj |-> NoEntry]
    ELSE IF data.parses
         THEN [err |-> "none", obj |-> data.obj]
         ELSE [err |-> "json", obj |-> NoEntry]

\* JSONStorage.get and _rebuild_index: zlib.decompress if the bytes start with
\* ZLIB_HEADER, then json.loads; err names the exception raised
Decode(data) ==
    IF data.zlib
    THEN IF data.intact /\ data.parses
         THEN [err |-> "none", obj |-> data.obj]
         ELSE [err |-> "zlib", obj |-> NoEntry]
    ELSE IF data.parses
         THEN [err |-> "none", obj |-> data.obj]
         ELSE [err |-> "json", obj |-> NoEntry]

\* a validity test whose TTL window includes its end
IsValid_TtlInclusive(st, e, t) ==
    CASE st.kind = "ttl" ->
             e.ttl = None \/ t - e.created <= e.ttl * MsPerSecond
      [] st.kind = "lru" ->
             st.param = None
                 \/ t - e.last_accessed < st.param * MsPerSecond - LRU_BUFFER_MS
      [] st.kind = "size" ->
             st.param = None \/ e.size <= st.param

\* TTLStrategy / LRUStrategy / SizeStrategy .is_valid at time t; base.set always
\* writes the "ttl" key, so metadata.get("ttl", self.default_ttl) is the entry's ttl
IsValid(st, e, t) ==
    CASE st.kind = "ttl" ->
             e.ttl = None \/ t - e.created < e.ttl * MsPerSecond
      [] st.kind = "lru" ->
             st.param = None
                 \/ t - e.last_accessed < st.param * MsPerSecond - LRU_BUFFER_MS
      [] st.kind = "size" ->
             st.param = None \/ e.size <= st.param

\* .update_metadata at time t
UpdateMetadata(st, e, t) ==
    CASE st.kind = "ttl" -> [e EXCEPT !.last_accessed = t]
      [] st.kind = "lru" ->
             IF IsValid(st, e, t) THEN [e EXCEPT !.last_accessed = t] ELSE e
      [] st.kind = "size" -> [e EXCEPT !.size = JsonLen(e.value)]

\* CacheIndex.add_entry
AddEntry(idx, k, filename, e) ==
    [idx EXCEPT ![k] = IndexEntry(filename, e.created, e.last_accessed, e.ttl,
                                  e.compression)]

\* CacheIndex.remove_entry
RemoveEntry(idx, k) == [idx EXCEPT ![k] = NoIdx]

\* CacheIndex.save
Save(S) ==
    IF S.dirty
    THEN [S EXCEPT !.index_file = SavedIndex(S.index), !.dirty = FALSE]
    ELSE S

\* _rebuild_index: the files whose decoding raises an exception that the loop
\* does not catch (zlib.error)
RaisingFiles(fs) ==
    {f \in FileNames : fs[f].kind = "bytes" /\ Decode(fs[f]).err = "zlib"}

\* _rebuild_index: the files that decode and carry a truthy key
IndexableFiles(fs) ==
    {f \in FileNames : /\ fs[f].kind = "bytes"
                       /\ Decode(fs[f]).err = "none"
                       /\ Decode(fs[f]).obj.key /= ""}

\* _rebuild_index: the index built from the files F (the model's directories
\* hold at most one file per key)
RebuiltFrom(fs, F) ==
    [k \in CacheKeys |->
        IF \E f \in F : Decode(fs[f]).obj.key = k
        THEN LET f == CHOOSE g \in F : Decode(fs[g]).obj.key = k
                 e == Decode(fs[f]).obj
             IN  IndexEntry(f, e.created, e.last_accessed, e.ttl, e.compression)
        ELSE NoIdx]

\* _rebuild_index: rglob visits the files in any order; a raising file ends
\* the loop with the files visited before it in the index
RebuildOutcomes(fs) ==
    IF RaisingFiles(fs) = {}
    THEN {[index |-> RebuiltFrom(fs, IndexableFiles(fs)), raised |-> FALSE]}
    ELSE {[index |-> RebuiltFrom(fs, F), raised |-> TRUE] :
              F \in SUBSET IndexableFiles(fs)}

\* _ensure_index_loaded with CacheIndex.load: the possible stores afterwards
EnsureLoaded(S) ==
    IF S.loaded
    THEN {[S |-> S, raised |-> FALSE]}
    ELSE IF S.index_file.kind = "json"
         THEN {[S |-> [S EXCEPT !.index = S.index_file.index, !.loaded = TRUE],
                raised |-> FALSE]}
         ELSE {[S |-> [S EXCEPT !.index = r.index,
                                !.dirty = IF r.raised THEN @ ELSE TRUE,
                                !.loaded = ~r.raised],
                raised |-> r.raised] : r \in RebuildOutcomes(S.files)}

\* JSONStorage.get with the index loaded
StorageGet(S, k, t) ==
    IF S.index[k].kind = "none"
    THEN [S |-> S, entry |-> NoEntry]
    ELSE LET f == S.index[k].filename
         IN  IF S.files[f].kind = "none"
             THEN [S |-> [S EXCEPT !.index = RemoveEntry(@, k), !.dirty = TRUE],
                   entry |-> NoEntry]
             ELSE LET d == Decode(S.files[f])
                  IN  IF d.err = "none"
                      THEN [S |-> [S EXCEPT !.index[k].last_accessed = t,
                                            !.dirty = TRUE],
                            entry |-> d.obj]
                      ELSE [S |-> [S EXCEPT !.index = RemoveEntry(@, k),
                                            !.dirty = TRUE],
                            entry |-> NoEntry]

\* JSONStorage.set with the index loaded: temp file, os.replace, add_entry
StorageSet(S, k, e, compression) ==
    [S EXCEPT !.files[Hash(k)] = Encode(e, compression),
              !.index = AddEntry(@, k, Hash(k), e),
              !.dirty = TRUE]

\* JSONStorage.delete with the index loaded
StorageDelete(S, k) ==
    IF S.index[k].kind = "none"
    THEN S
    ELSE [S EXCEPT !.index = RemoveEntry(@, k),
                   !.dirty = TRUE,
                   !.files[S.index[k].filename] = NoFile]

\* JSONStorage.clear with the index loaded
StorageClear(S) ==
    Save([S EXCEPT !.files = [f \in FileNames |-> NoFile],
                   !.index = EmptyIndex,
                   !.dirty = TRUE])

\* CacheIndex.cleanup_expired
ExpiredKeys(idx, max_age, t) ==
    {k \in CacheKeys : /\ idx[k].kind = "idx"
                       /\ t - idx[k].last_accessed > max_age * MsPerSecond}

\* JSONStorage.cleanup: "for key in expired_keys: await self.delete(key)"
RECURSIVE DeleteEach(_, _)
DeleteEach(S, K) ==
    IF K = {}
    THEN S
    ELSE LET k == CHOOSE x \in K : TRUE
         IN  DeleteEach(StorageDelete(S, k), K \ {k})

\* CacheIndex.verify_integrity()["orphaned_files"]
OrphanedFiles(S) ==
    {f \in FileNames : S.files[f].kind = "bytes"}
        \ {S.index[k].filename : k \in {x \in CacheKeys : S.index[x].kind = "idx"}}

\* CacheIndex.verify_integrity()["missing_files"]
MissingFiles(S) ==
    {S.index[k].filename : k \in {x \in CacheKeys : S.index[x].kind = "idx"}}
        \ {f \in FileNames : S.files[f].kind = "bytes"}

\* JSONStorage.cleanup with the index loaded
StorageCleanup(S, max_age, t) ==
    LET D == DeleteEach(S, ExpiredKeys(S.index, max_age, t))
        O == OrphanedFiles(D)
    IN  Save([D EXCEPT !.files = [f \in FileNames |->
                                     IF f \in O THEN NoFile ELSE D.files[f]]])

\* BaseCache.delete: the statistics after storage.delete returned
StatsAfterDelete(st) ==
    [st EXCEPT !.entries = Max(0, @ - 1), !.invalidations = @ + 1]

\* BaseCache.get, the branch of an invalid entry: self.delete(key), then the
\* two counters
StatsAfterInvalid(st) ==
    [StatsAfterDelete(st) EXCEPT !.invalidations = @ + 1, !.misses = @ + 1]

\* BaseCache.get with the index loaded
BaseGet(S, st, sts, k, t) ==
    LET g == StorageGet(S, k, t)
    IN  IF g.entry.kind = "none"
        THEN [S |-> g.S, stats |-> [sts EXCEPT !.misses = @ + 1],
              res |-> Absent, found |-> FALSE, valid |-> FALSE]
        ELSE IF ~IsValid(st, g.entry, t)
             THEN [S |-> StorageDelete(g.S, k), stats |-> StatsAfterInvalid(sts),
                   res |-> Absent, found |-> TRUE, valid |-> FALSE]
             ELSE LET u == UpdateMetadata(st, g.entry, t)
                  IN  [S |-> IF u /= g.entry
                             THEN StorageSet(g.S, k, u, u.compression)
                             ELSE g.S,
                       stats |-> [sts EXCEPT !.hits = @ + 1],
                       res |-> g.entry.value, found |-> TRUE, valid |-> TRUE]

\* the storage instance and its directory after an operation
SetStore(S) ==
    /\ files' = S.files
    /\ index_file' = S.index_file
    /\ index' = S.index
    /\ index_loaded' = S.loaded
    /\ dirty' = S.dirty

\* history: the operation o called with the key argument key, its outcome r
\* (a value, None or the exception raised), whether it found a stored entry
\* and whether the strategy accepted it
CacheOp(o, key, r, f, v) ==
    [op |-> o, key |-> key.val, isstr |-> key.isstr, res |-> r, found |-> f,
     valid |-> v, max_age |-> 0]

\* ------------------------------------------------------- cache: actions
\* the strategies a cache is built with
Strategies == {TTLStrategy(CacheSeconds), LRUStrategy(CacheSeconds),
               SizeStrategy(CacheMaxSize)}

KeyArgs == {StrKey(k) : k \in CacheKeys} \cup {IntKey}

\* the (value, ttl, compression) arguments of set: the calls of test_cache.py
\* (a plain set, a set with a ttl, a set with compression) and a value that is
\* not JSON serializable
SetArgs == {<<JsonValue("v1"), None, FALSE>>,
            <<JsonValue("value2"), CacheSeconds, FALSE>>,
            <<JsonValue("value2"), None, TRUE>>,
            <<LambdaValue, None, FALSE>>}

MaxAgeArgs == {0, CacheSeconds}

ClockSteps == {1, CacheSeconds * MsPerSecond - 1}

\* history: the entry the callers stored last under k
ExpectedEntry(k) ==
    CacheEntry(k, expected[k].value, expected[k].created, expected[k].accessed,
               expected[k].ttl, FALSE)

\* history: something is stored under k and the strategy accepts it now
ExpectedValid(k) ==
    expected[k].value /= Absent /\ IsValid(strategy, ExpectedEntry(k), clock)

CacheInit ==
    /\ RateLimiterInit
    /\ max_requests_per_minute = 1
    /\ max_concurrent_requests = 1
    /\ strategy \in Strategies
    /\ EmptyCache
    /\ PipelineAtRest

\* BaseCache.get(key)
CacheGet(key) ==
    /\ cache_ops' = cache_ops + 1
    /\ IF ~key.isstr
       THEN /\ cache_last' = CacheOp("get", key, "TypeError", FALSE, FALSE)
            /\ UNCHANGED <<files, index_file, index, index_loaded, dirty, stats, expected>>
       ELSE \E L \in EnsureLoaded(Store) :
                IF L.raised
                THEN /\ SetStore(L.S)
                     /\ stats' = [stats EXCEPT !.misses = @ + 1]
                     /\ cache_last' = CacheOp("get", key, Absent, FALSE, FALSE)
                     /\ UNCHANGED expected
                ELSE LET r == BaseGet(L.S, strategy, stats, key.val, clock)
                     IN  /\ SetStore(r.S)
                         /\ stats' = r.stats
                         /\ cache_last' = CacheOp("get", key, r.res, r.found, r.valid)
                         /\ expected' =
                                [expected EXCEPT ![key.val] =
                                    IF @.value = Absent THEN @
                                    ELSE IF ExpectedValid(key.val)
                                         THEN [@ EXCEPT !.accessed = clock]
                                         ELSE Unstored]
    /\ UNCHANGED <<rateVars, taskVars, clock, strategy, temp_files, cache_sets, cache_ticks>>

\* BaseCache.set(key, value, ttl, compression)
CacheSet(key, value, ttl, compression) ==
    /\ cache_ops' = cache_ops + 1
    /\ cache_sets' = cache_sets + 1
    /\ IF ~key.isstr \/ ~value.json
       THEN /\ cache_last' = CacheOp("set", key, "TypeError", FALSE, FALSE)
            /\ UNCHANGED <<files, index_file, index, index_loaded, dirty, stats, expected>>
       ELSE \E L \in EnsureLoaded(Store) :
                IF L.raised
                THEN /\ SetStore(L.S)
                     /\ cache_last' = CacheOp("set", key, "error", FALSE, FALSE)
                     /\ UNCHANGED <<stats, expected>>
                ELSE LET e == CacheEntry(key.val, value.val, clock, clock, ttl, compression)
                     IN  /\ SetStore(StorageSet(L.S, key.val, e, compression))
                         /\ stats' = [stats EXCEPT !.entries = @ + 1]
                         /\ cache_last' = CacheOp("set", key, value.val, FALSE, FALSE)
                         /\ expected' =
                                [expected EXCEPT ![key.val] =
                                    [value |-> value.val, created |-> clock,
                                     accessed |-> clock, ttl |-> ttl,
                                     restarted |-> FALSE]]
    /\ UNCHANGED <<rateVars, taskVars, clock, strategy, temp_files, cache_ticks>>

\* BaseCache.delete(key)
CacheDelete(key) ==
    /\ cache_ops' = cache_ops + 1
    /\ IF ~key.isstr
       THEN /\ cache_last' = CacheOp("delete", key, "TypeError", FALSE, FALSE)
            /\ UNCHANGED <<files, index_file, index, index_loaded, dirty, stats, expected>>
       ELSE \E L \in EnsureLoaded(Store) :
                IF L.raised
                THEN /\ SetStore(L.S)
                     /\ cache_last' = CacheOp("delete", key, "error", FALSE, FALSE)
                     /\ UNCHANGED <<stats, expected>>
                ELSE /\ SetStore(StorageDelete(L.S, key.val))
                     /\ stats' = StatsAfterDelete(stats)
                     /\ cache_last' = CacheOp("delete", key, Absent,
                                              L.S.index[key.val].kind = "idx", FALSE)
                     /\ expected' = [expected EXCEPT ![key.val] = Unstored]
    /\ UNCHANGED <<rateVars, taskVars, clock, strategy, temp_files, cache_sets, cache_ticks>>

\* BaseCache.clear()
CacheClear ==
    /\ cache_ops' = cache_ops + 1
    /\ \E L \in EnsureLoaded(Store) :
           IF L.raised
           THEN /\ SetStore(L.S)
                /\ cache_last' = CacheOp("clear", StrKey(""), "error", FALSE, FALSE)
                /\ UNCHANGED <<stats, expected>>
           ELSE /\ SetStore(StorageClear(L.S))
                /\ stats' = ZeroStats
                /\ cache_last' = CacheOp("clear", StrKey(""), Absent, FALSE, FALSE)
                /\ expected' = [k \in CacheKeys |-> Unstored]
    /\ UNCHANGED <<rateVars, taskVars, clock, strategy, temp_files, cache_sets, cache_ticks>>

\* BaseCache.cleanup(max_age)
CacheCleanup(max_age) ==
    /\ cache_ops' = cache_ops + 1
    /\ \E L \in EnsureLoaded(Store) :
           IF L.raised
           THEN /\ SetStore(L.S)
                /\ cache_last' = CacheOp("cleanup", StrKey(""), "error", FALSE, FALSE)
                /\ UNCHANGED expected
           ELSE /\ SetStore(StorageCleanup(L.S, max_age, clock))
                /\ cache_last' = [CacheOp("cleanup", StrKey(""), Absent, FALSE, FALSE)
                                     EXCEPT !.max_age = max_age]
                /\ expected' =
                       [k \in CacheKeys |->
                           IF /\ expected[k].value /= Absent
                              /\ clock - expected[k].accessed > max_age * MsPerSecond
                           THEN Unstored
                           ELSE expected[k]]
    /\ UNCHANGED <<rateVars, taskVars, clock, strategy, stats, temp_files, cache_sets, cache_ticks>>

\* the process ends and a new one builds JSONStorage and BaseCache over the
\* same directory, with the same strategy
CacheRestart ==
    /\ cache_ops' = cache_ops + 1
    /\ index' = EmptyIndex
    /\ index_loaded' = FALSE
    /\ dirty' = FALSE
    /\ stats' = ZeroStats
    /\ expected' = [k \in CacheKeys |->
                       IF expected[k].value = Absent
                       THEN expected[k]
                       ELSE [expected[k] EXCEPT !.restarted = TRUE]]
    /\ cache_last' = CacheOp("restart", StrKey(""), Absent, FALSE, FALSE)
    /\ UNCHANGED <<rateVars, taskVars, clock, strategy, files, temp_files, index_file, cache_sets,
                   cache_ticks>>

\* time.time() advances by d milliseconds; the clock is counted from the first
\* entry stored
CacheTick(d) ==
    /\ \E f \in FileNames : files[f].kind = "bytes"
    /\ cache_ticks' = cache_ticks + 1
    /\ clock' = clock + d
    /\ cache_last' = CacheOp("tick", StrKey(""), Absent, FALSE, FALSE)
    /\ UNCHANGED <<rateVars, taskVars, strategy, files, temp_files, index_file, index,
                   index_loaded, dirty, stats, cache_ops, cache_sets, expected>>

\* one process: the operations of BaseCache and the clock
CacheNext ==
    \/ \E k \in KeyArgs : cache_ops < MaxCacheOps /\ CacheGet(k)
    \/ \E k \in KeyArgs, a \in SetArgs :
           cache_ops < MaxCacheOps /\ cache_sets < MaxCacheSets
               /\ CacheSet(k, a[1], a[2], a[3])
    \/ \E k \in KeyArgs : cache_ops < MaxCacheOps /\ CacheDelete(k)
    \/ cache_ops < MaxCacheOps /\ CacheClear
    \/ \E a \in MaxAgeArgs : cache_ops < MaxCacheOps /\ CacheCleanup(a)
    \/ \E d \in ClockSteps : cache_ticks < MaxCacheTicks /\ CacheTick(d)

CacheSpec == CacheInit /\ [][CacheNext]_vars

\* ------------------------------------------------- cache: a set that fails
\* bound: BaseCache operations made in FailSpec
MaxFailOps == 3

\* where the operating system refuses inside JSONStorage.set: opening the temp
\* file, writing it, or os.replace
SetFailures == {"open", "write", "replace"}

\* the *.tmp files when JSONStorage.set raises at the point at: open creates
\* the file, write fills it
TempAtFailure(T, k, e, compression, at) ==
    CASE at = "open"    -> T
      [] at = "write"   -> [T EXCEPT ![Hash(k)] = IF compression THEN BadZlib ELSE BadJson]
      [] at = "replace" -> [T EXCEPT ![Hash(k)] = Encode(e, compression)]

\* an exception handler that leaves the temp file behind
CleanupTemp_Keeps(T, k) == T

\* JSONStorage.set, "except Exception": temp_path is set and the file, if it
\* exists, is unlinked before the exception is raised again
CleanupTemp(T, k) == [T EXCEPT ![Hash(k)] = NoFile]

\* BaseCache.set, the except clauses: what the caller gets for an exception
\* of class exc out of the storage
BaseSetCatch(exc) == IF exc = "TypeError" THEN "TypeError" ELSE "logged"

\* BaseCache.set(key, value, ttl, compression) with an OSError at the point at
\* of JSONStorage.set
CacheSetFails(key, value, ttl, compression, at) ==
    /\ key.isstr
    /\ value.json
    /\ cache_ops' = cache_ops + 1
    /\ cache_sets' = cache_sets + 1
    /\ \E L \in EnsureLoaded(Store) :
           /\ ~L.raised
           /\ SetStore(L.S)
           /\ LET e == CacheEntry(key.val, value.val, clock, clock, ttl, compression)
              IN  temp_files' =
                      CleanupTemp(TempAtFailure(temp_files, key.val, e, compression, at),
                                  key.val)
           /\ cache_last' = CacheOp("set_failed", key, BaseSetCatch("OSError"), FALSE, FALSE)
    /\ UNCHANGED <<rateVars, taskVars, clock, strategy, stats, cache_ticks, expected>>

\* one process whose sets may fail
FailNext ==
    \/ \E k \in CacheKeys : cache_ops < MaxFailOps /\ CacheGet(StrKey(k))
    \/ \E k \in CacheKeys, a \in SetArgs :
           a[1].json /\ cache_ops < MaxFailOps /\ CacheSet(StrKey(k), a[1], a[2], a[3])
    \/ \E k \in CacheKeys, a \in SetArgs, at \in SetFailures :
           cache_ops < MaxFailOps /\ CacheSetFails(StrKey(k), a[1], a[2], a[3], at)
    \/ \E d \in ClockSteps : cache_ticks < MaxCacheTicks /\ CacheTick(d)

FailSpec == CacheInit /\ [][FailNext]_vars

\* processes one after the other over the same directory, called with string
\* keys and JSON values
RestartNext ==
    \/ \E k \in CacheKeys : cache_ops < MaxRestartOps /\ CacheGet(StrKey(k))
    \/ \E k \in CacheKeys, a \in SetArgs :
           a[1].json /\ cache_ops < MaxRestartOps /\ cache_sets < MaxCacheSets
               /\ CacheSet(StrKey(k), a[1], a[2], a[3])
    \/ \E k \in CacheKeys : cache_ops < MaxRestartOps /\ CacheDelete(StrKey(k))
    \/ cache_ops < MaxRestartOps /\ CacheClear
    \/ \E a \in MaxAgeArgs : cache_ops < MaxRestartOps /\ CacheCleanup(a)
    \/ cache_ops < MaxRestartOps /\ CacheRestart
    \/ \E d \in ClockSteps : cache_ticks < MaxCacheTicks /\ CacheTick(d)

RestartSpec == CacheInit /\ [][RestartNext]_vars

\* the contents a crash can leave under the file name of key k: nothing, an
\* entry that set wrote, or a file cut short
LeftBehind(k) ==
    {NoFile, BadJson, BadZlib}
        \cup {Encode(CacheEntry(k, a[1].val, 0, 0, a[2], a[3]), a[3]) :
                  a \in {x \in SetArgs : x[1].json}}

\* a new process over a directory whose index file is missing or unparseable
RebuildInit ==
    /\ RateLimiterInit
    /\ max_requests_per_minute = 1
    /\ max_concurrent_requests = 1
    /\ clock = 0
    /\ strategy = TTLStrategy(None)
    /\ files \in [FileNames -> UNION {LeftBehind(k) : k \in CacheKeys}]
    /\ \A k \in CacheKeys : files[Hash(k)] \in LeftBehind(k)
    /\ temp_files = [f \in FileNames |-> NoFile]
    /\ index_file \in {NoIndexFile, CorruptIndexFile}
    /\ index = EmptyIndex
    /\ index_loaded = FALSE
    /\ dirty = FALSE
    /\ stats = ZeroStats
    /\ cache_ops = 0
    /\ cache_sets = 0
    /\ cache_ticks = 0
    /\ expected = [k \in CacheKeys |-> Unstored]
    /\ cache_last = NoCacheOp
    /\ cache_tasks = [t \in StorageTasks |-> IdleTask]
    /\ key_locks = [k \in CacheKeys |-> FreeLock]
    /\ task_calls = 0
    /\ started = [k \in CacheKeys |-> {}]
    /\ PipelineAtRest

\* JSONStorage.list_keys()
CacheListKeys ==
    /\ cache_ops' = cache_ops + 1
    /\ \E L \in EnsureLoaded(Store) :
           /\ SetStore(L.S)
           /\ cache_last' = CacheOp("list_keys", StrKey(""), IF L.raised THEN "error" ELSE Absent,
                                    FALSE, FALSE)
    /\ UNCHANGED <<rateVars, taskVars, clock, strategy, stats, temp_files, cache_sets, cache_ticks,
                   expected>>

RebuildNext ==
    \/ cache_ops < MaxRebuildOps /\ CacheListKeys
    \/ \E k \in CacheKeys : cache_ops < MaxRebuildOps /\ CacheGet(StrKey(k))

RebuildSpec == RebuildInit /\ [][RebuildNext]_vars

\* --------------------------------------------- cache: concurrent tasks
\* Several asyncio tasks call get, set and delete of one BaseCache.  A task
\* runs until it suspends: at the acquire of a key lock that is held, and at
\* every await of aiofiles (open, read, write, flush, close), which hands the
\* file operation to a worker thread.  The index lock is never held across a
\* suspension here (only load and save do that, and the directory is new, so
\* the first load finds no file to read), so the index operations are atomic.

\* bound: calls made by all tasks together
MaxStorageCalls == 3

\* the (value, ttl, compression) arguments the tasks pass to set
TaskSetArgs == {a \in SetArgs : a[1].json /\ a[2] = None}

\* what the steps of a task read and write
World == [tasks |-> cache_tasks, locks |-> key_locks, files |-> files,
          index |-> index, dirty |-> dirty, stats |-> stats]

SetWorld(W) ==
    /\ cache_tasks' = W.tasks
    /\ key_locks' = W.locks
    /\ files' = W.files
    /\ index' = W.index
    /\ dirty' = W.dirty
    /\ stats' = W.stats

\* World over the storage S that _ensure_index_loaded left
LoadedWorld(S) == [World EXCEPT !.files = S.files, !.index = S.index, !.dirty = S.dirty]

\* a lock that every task finds unlocked
LockFree_Always(lk, k) == TRUE

\* asyncio.Lock.acquire returns without suspending: the lock of key k is not
\* held (a released lock with waiters passes to the first waiter)
LockFree(lk, k) == lk[k].holder = NoTask

\* "async with self._get_lock(key)" entered by task t, to continue at pc want
LockAcquire(W, t, k, want) ==
    IF LockFree(W.locks, k)
    THEN [W EXCEPT !.locks[k].holder = t, !.tasks[t].pc = want]
    ELSE [W EXCEPT !.locks[k].waiters = Append(@, t),
                   !.tasks[t].pc = "lock_wait",
                   !.tasks[t].want = want]

\* the end of "async with self._get_lock(key)": asyncio.Lock.release wakes the
\* first waiter, and no other task can take the lock before it runs
LockRelease(W, k) ==
    LET q == W.locks[k].waiters
    IN  IF q = <<>>
        THEN [W EXCEPT !.locks[k] = FreeLock]
        ELSE [W EXCEPT !.locks[k] = [holder |-> Head(q), waiters |-> Tail(q)],
                       !.tasks[Head(q)].pc = W.tasks[Head(q)].want]

\* the call of task t returns r to its caller, the counters are sts
Return(W, t, r, sts) ==
    [W EXCEPT !.tasks[t].pc = "idle", !.tasks[t].res = r, !.stats = sts]

\* the counters after BaseCache.delete returned, called by the task itself or
\* by its get of an invalid entry
DeleteStats(W, t) ==
    IF W.tasks[t].op = "get" THEN StatsAfterInvalid(W.stats) ELSE StatsAfterDelete(W.stats)

\* JSONStorage.delete inside the key lock: unlink the file if it exists; the
\* file name popped from the index is Hash(key)
DeleteLocked(W, t) ==
    LET k == W.tasks[t].key
    IN  Return(LockRelease([W EXCEPT !.files[Hash(k)] = NoFile], k), t, Absent,
               DeleteStats(W, t))

\* BaseCache.delete from remove_entry on
BaseDelete(W, t) ==
    LET k == W.tasks[t].key
    IN  IF W.index[k].kind = "none"
        THEN Return(W, t, Absent, DeleteStats(W, t))
        ELSE LET A == LockAcquire([W EXCEPT !.index = RemoveEntry(@, k), !.dirty = TRUE],
                              t, k, "delete_unlink")
             IN  IF A.tasks[t].pc = "delete_unlink" THEN DeleteLocked(A, t) ELSE A

\* BaseCache.get after JSONStorage.get returned e: a miss, an invalid entry
\* that is deleted, or a hit whose refreshed entry is written back
AfterStorageGet(W, t, e) ==
    IF e.kind = "none"
    THEN Return(W, t, Absent, [W.stats EXCEPT !.misses = @ + 1])
    ELSE IF ~IsValid(strategy, e, clock)
         THEN BaseDelete(W, t)
         ELSE LET u == UpdateMetadata(strategy, e, clock)
              IN  IF u /= e
                  THEN LockAcquire([W EXCEPT !.tasks[t].entry = u,
                                         !.tasks[t].res = e.value],
                               t, W.tasks[t].key, "set_open")
                  ELSE Return(W, t, e.value, [W.stats EXCEPT !.hits = @ + 1])

\* a call that _ensure_index_loaded fails: storage raises, BaseCache logs
LoadFailed(t, L, o, k) ==
    /\ cache_tasks' = [cache_tasks EXCEPT ![t] = [IdleTask EXCEPT !.op = o, !.key = k]]
    /\ SetStore(L.S)
    /\ UNCHANGED <<key_locks, stats>>

\* task t calls BaseCache.get(k) and runs to its first suspension
TaskCallGet(t, k) ==
    /\ cache_tasks[t].pc = "idle"
    /\ task_calls' = task_calls + 1
    /\ clock' = clock + 1  \* time.time() has moved on since the call before
    /\ \E L \in EnsureLoaded(Store) :
           IF L.raised
           THEN LoadFailed(t, L, "get", k)
           ELSE LET W == [LoadedWorld(L.S) EXCEPT
                              !.tasks[t] = [IdleTask EXCEPT !.op = "get", !.key = k]]
                IN  /\ index_loaded' = L.S.loaded
                    /\ index_file' = L.S.index_file
                    /\ IF W.index[k].kind = "none"
                       THEN SetWorld(AfterStorageGet(W, t, NoEntry))
                       ELSE IF W.files[W.index[k].filename].kind = "none"
                            THEN SetWorld(AfterStorageGet(
                                     [W EXCEPT !.index = RemoveEntry(@, k),
                                               !.dirty = TRUE], t, NoEntry))
                            ELSE SetWorld(LockAcquire(W, t, k, "get_read"))
    /\ UNCHANGED <<rateVars, strategy, temp_files, cache_ops, cache_sets,
                   cache_ticks, expected, cache_last, started>>

\* JSONStorage.get inside the key lock: the file is opened and read, the
\* lock is released, and BaseCache.get goes on to its next suspension
TaskGetRead(t) ==
    /\ cache_tasks[t].pc = "get_read"
    /\ LET k == cache_tasks[t].key
           d == Decode(files[Hash(k)])
       IN  IF files[Hash(k)].kind = "none"
           THEN SetWorld(AfterStorageGet(LockRelease(World, k), t, NoEntry))
           ELSE IF d.err = "none"
                THEN SetWorld(AfterStorageGet(
                         LockRelease([World EXCEPT
                                      !.index[k] = IF @.kind = "idx"
                                                   THEN [@ EXCEPT !.last_accessed = clock]
                                                   ELSE @,
                                      !.dirty = @ \/ index[k].kind = "idx"], k),
                         t, d.obj))
                ELSE SetWorld(AfterStorageGet(
                         LockRelease([World EXCEPT
                                      !.index = RemoveEntry(@, k),
                                      !.dirty = @ \/ index[k].kind = "idx"], k),
                         t, NoEntry))
    /\ UNCHANGED <<rateVars, clock, strategy, temp_files, index_file, index_loaded,
                   cache_ops, cache_sets, cache_ticks, expected, cache_last,
                   task_calls, started>>

\* task t calls BaseCache.set(k, value, ttl, compression) and runs to its
\* first suspension
TaskCallSet(t, k, value, ttl, compression) ==
    /\ cache_tasks[t].pc = "idle"
    /\ task_calls' = task_calls + 1
    /\ clock' = clock + 1  \* time.time() has moved on since the call before
    /\ started' = [started EXCEPT ![k] = @ \cup {value.val}]
    /\ \E L \in EnsureLoaded(Store) :
           IF L.raised
           THEN LoadFailed(t, L, "set", k)
           ELSE /\ index_loaded' = L.S.loaded
                /\ index_file' = L.S.index_file
                /\ SetWorld(LockAcquire(
                       [LoadedWorld(L.S) EXCEPT
                            !.tasks[t] = [IdleTask EXCEPT
                                !.op = "set", !.key = k,
                                !.entry = CacheEntry(k, value.val, clock', clock', ttl,
                                                     compression)]],
                       t, k, "set_open"))
    /\ UNCHANGED <<rateVars, strategy, temp_files, cache_ops, cache_sets,
                   cache_ticks, expected, cache_last>>

\* JSONStorage.set: aiofiles.open(temp_path, "wb") has created the temp file
TaskSetOpen(t) ==
    /\ cache_tasks[t].pc = "set_open"
    /\ temp_files' = [temp_files EXCEPT ![Hash(cache_tasks[t].key)] = BadJson]
    /\ cache_tasks' = [cache_tasks EXCEPT ![t].pc = "set_write"]
    /\ UNCHANGED <<rateVars, clock, strategy, files, index_file, index, index_loaded,
                   dirty, stats, cache_ops, cache_sets, cache_ticks, expected,
                   cache_last, key_locks, task_calls, started>>

\* JSONStorage.set: f.write(data) has written the temp file
TaskSetWrite(t) ==
    /\ cache_tasks[t].pc = "set_write"
    /\ temp_files' = [temp_files EXCEPT ![Hash(cache_tasks[t].key)] =
                          Encode(cache_tasks[t].entry, cache_tasks[t].entry.compression)]
    /\ cache_tasks' = [cache_tasks EXCEPT ![t].pc = "set_close"]
    /\ UNCHANGED <<rateVars, clock, strategy, files, index_file, index, index_loaded,
                   dirty, stats, cache_ops, cache_sets, cache_ticks, expected,
                   cache_last, key_locks, task_calls, started>>

\* JSONStorage.set: flushed, synced and closed; os.replace, add_entry, the
\* lock is released and BaseCache.set (or the get that wrote back) returns
TaskSetClose(t) ==
    /\ cache_tasks[t].pc = "set_close"
    /\ LET k == cache_tasks[t].key
           e == cache_tasks[t].entry
           W == [World EXCEPT !.files[Hash(k)] = temp_files[Hash(k)],
                              !.index = AddEntry(@, k, Hash(k), e),
                              !.dirty = TRUE]
       IN  /\ temp_files' = [temp_files EXCEPT ![Hash(k)] = NoFile]
           /\ IF cache_tasks[t].op = "get"
              THEN SetWorld(Return(LockRelease(W, k), t, e.value,
                                   [stats EXCEPT !.hits = @ + 1]))
              ELSE SetWorld(Return(LockRelease(W, k), t, Absent,
                                   [stats EXCEPT !.entries = @ + 1]))
    /\ UNCHANGED <<rateVars, clock, strategy, index_file, index_loaded, cache_ops,
                   cache_sets, cache_ticks, expected, cache_last, task_calls, started>>

\* task t calls BaseCache.delete(k) and runs to its first suspension, or to
\* the end if the key lock is free
TaskCallDelete(t, k) ==
    /\ cache_tasks[t].pc = "idle"
    /\ task_calls' = task_calls + 1
    /\ clock' = clock + 1  \* time.time() has moved on since the call before
    /\ \E L \in EnsureLoaded(Store) :
           IF L.raised
           THEN LoadFailed(t, L, "delete", k)
           ELSE /\ index_loaded' = L.S.loaded
                /\ index_file' = L.S.index_file
                /\ SetWorld(BaseDelete(
                       [LoadedWorld(L.S) EXCEPT
                            !.tasks[t] = [IdleTask EXCEPT !.op = "delete", !.key = k]],
                       t))
    /\ UNCHANGED <<rateVars, strategy, temp_files, cache_ops, cache_sets,
                   cache_ticks, expected, cache_last, started>>

\* JSONStorage.delete resumes with the key lock it waited for
TaskDeleteUnlink(t) ==
    /\ cache_tasks[t].pc = "delete_unlink"
    /\ SetWorld(DeleteLocked(World, t))
    /\ UNCHANGED <<rateVars, clock, strategy, temp_files, index_file, index_loaded,
                   cache_ops, cache_sets, cache_ticks, expected, cache_last,
                   task_calls, started>>

\* one process, several tasks on one event loop
StorageNext ==
    \/ \E t \in StorageTasks, k \in CacheKeys :
           task_calls < MaxStorageCalls /\ TaskCallGet(t, k)
    \/ \E t \in StorageTasks : TaskGetRead(t)
    \/ \E t \in StorageTasks, k \in CacheKeys, a \in TaskSetArgs :
           task_calls < MaxStorageCalls /\ TaskCallSet(t, k, a[1], a[2], a[3])
    \/ \E t \in StorageTasks : TaskSetOpen(t)
    \/ \E t \in StorageTasks : TaskSetWrite(t)
    \/ \E t \in StorageTasks : TaskSetClose(t)
    \/ \E t \in StorageTasks, k \in CacheKeys :
           task_calls < MaxStorageCalls /\ TaskCallDelete(t, k)
    \/ \E t \in StorageTasks : TaskDeleteUnlink(t)

StorageSpec == CacheInit /\ [][StorageNext]_vars

\* -------------------------------------------------- track matcher: data
\* config.time_threshold, in seconds (TrackIdentificationConfig default)
time_threshold == 30

\* bound: add_track calls made
MaxAdds == 3

\* the titles of the candidates: three that differ in case and punctuation
\* only, and a different one
TrackTitles == {"Song", "song", "song!", "Other"}

TrackArtists == {"Artist"}

\* time_in_mix "HH:MM:SS" as <<HH, MM, SS>>: 40 s, 60 s and 80 s into the
\* mix, the middle one within the threshold of both others
TrackTimes == {<<0, 0, 40>>, <<0, 1, 0>>, <<0, 1, 20>>}

TrackConfidences == {50, 80}

\* the values min_confidence is set to
MinConfidences == {0, 60}

\* Track.__init__ with valid arguments; config is the one get_config() object
\* for every track, so the dataclass __eq__ compares these four fields
Track(song_name, artist, time_in_mix, confidence) ==
    [song_name |-> song_name, artist |-> artist, time_in_mix |-> time_in_mix,
     confidence |-> confidence]

\* the tracks handed to add_track
TrackArgs ==
    {Track(s, a, t, c) : s \in TrackTitles, a \in TrackArtists, t \in TrackTimes,
                         c \in TrackConfidences}

\* Track.time_to_seconds: strptime with %H:%M:%S, 0 when it rejects the string
TimeToSeconds(tm) ==
    IF tm[1] <= 23 /\ tm[2] <= 59 /\ tm[3] <= 59
    THEN tm[1] * 3600 + tm[2] * 60 + tm[3]
    ELSE 0

\* str.lower()
Lower(s) ==
    CASE s = "Song" -> "song"
      [] s = "song!" -> "song!"
      [] s = "Other" -> "other"
      [] s = "Artist" -> "artist"
      [] s = "Unknown Title" -> "unknown title"
      [] s = "Unknown Artist" -> "unknown artist"
      [] OTHER -> s

\* is_similar_to.normalize: re.sub(r"[^\w\s]", "", s.lower())
Normalize(s) ==
    CASE Lower(s) = "song!" -> "song"
      [] OTHER -> Lower(s)

\* Track.is_similar_to
IsSimilarTo(a, b) ==
    /\ Normalize(a.song_name) = Normalize(b.song_name)
    /\ Normalize(a.artist) = Normalize(b.artist)

Abs(x) == IF x < 0 THEN -x ELSE x

\* add_track: time_diff of the incoming track and an existing one
TimeDiff(a, b) == Abs(TimeToSeconds(a.time_in_mix) - TimeToSeconds(b.time_in_mix))

\* a scan that finds no neighbour
SimilarTracks_None(ws, track) == <<>>

\* add_track: the existing tracks that are similar and within the threshold,
\* in list order
SimilarTracks(ws, track) ==
    SelectSeq(ws, LAMBDA e : TimeDiff(track, e) <= time_threshold /\ IsSimilarTo(track, e))

\* a choice that always takes the last element, the incoming track
BestTrack_Incoming(q) == q[Len(q)]

\* max(q, key=lambda t: t.confidence): the first element of highest confidence
BestTrack(q) ==
    q[CHOOSE i \in 1..Len(q) :
          /\ \A j \in 1..Len(q) : q[j].confidence <= q[i].confidence
          /\ \A j \in 1..(i - 1) : q[j].confidence < q[i].confidence]

\* list.remove(x): drops the first element equal to x
RemoveFirst(q, x) ==
    LET i == CHOOSE i \in 1..Len(q) : q[i] = x /\ \A j \in 1..(i - 1) : q[j] /= x
    IN  SubSeq(q, 1, i - 1) \o SubSeq(q, i + 1, Len(q))

\* a loop that removes the first similar track only
RemoveEach_First(q, xs) ==
    IF xs = <<>> THEN q ELSE RemoveFirst(q, Head(xs))

\* "for similar_track in similar_tracks: self.tracks.remove(similar_track)"
RECURSIVE RemoveEach(_, _)
RemoveEach(q, xs) ==
    IF xs = <<>> THEN q ELSE RemoveEach(RemoveFirst(q, Head(xs)), Tail(xs))

\* TrackMatcher.add_track: the working set after add_track(track) on ws
AddTrackTo(ws, minc, track) ==
    IF track.confidence < minc
    THEN ws
    ELSE LET similar_tracks == SimilarTracks(ws, track)
         IN  IF similar_tracks /= <<>>
             THEN IF BestTrack(Append(similar_tracks, track)) = track
                  THEN Append(RemoveEach(ws, similar_tracks), track)
                  ELSE ws
             ELSE Append(ws, track)

\* a sort that leaves the list as it is
SortByTime_Unsorted(q) == q

\* sorted(q, key=lambda t: t.time_to_seconds()): stable, so q[i] comes after
\* the elements of smaller time and the earlier elements of equal time
SortByTime(q) ==
    LET before(i) ==
            {j \in 1..Len(q) :
                 \/ TimeToSeconds(q[j].time_in_mix) < TimeToSeconds(q[i].time_in_mix)
                 \/ /\ TimeToSeconds(q[j].time_in_mix) = TimeToSeconds(q[i].time_in_mix)
                    /\ j < i}
    IN  [p \in 1..Len(q) |-> q[CHOOSE i \in 1..Len(q) : Cardinality(before(i)) = p - 1]]

\* get_unique_tracks: track_key
TrackKey(t) == <<Lower(t.artist), Lower(t.song_name)>>

\* a comparison that never prefers the later track
Outranks_Never(track, existing) == FALSE

\* get_unique_tracks: "if track.confidence > existing_track.confidence"
Outranks(track, existing) == track.confidence > existing.confidence

\* get_unique_tracks: the loop over sorted_tracks, unique the list built so far
RECURSIVE UniqueLoop(_, _)
UniqueLoop(unique, rest) ==
    IF rest = <<>>
    THEN unique
    ELSE LET track == Head(rest)
             same == SelectSeq(unique, LAMBDA t : TrackKey(t) = TrackKey(track))
         IN  IF same = <<>>
             THEN UniqueLoop(Append(unique, track), Tail(rest))
             ELSE IF Outranks(track, Head(same))
                  THEN UniqueLoop(Append(RemoveFirst(unique, Head(same)), track),
                                  Tail(rest))
                  ELSE UniqueLoop(unique, Tail(rest))

\* TrackMatcher.get_unique_tracks
GetUniqueTracks(ws) == SortByTime(UniqueLoop(<<>>, SortByTime(ws)))

\* ------------------------------------------------ track matcher: actions
\* TrackMatcher.add_track(track)
AddTrack(track) ==
    /\ Len(arrivals) < MaxAdds
    /\ tracks' = AddTrackTo(tracks, min_confidence, track)
    /\ arrivals' = Append(arrivals, track)
    /\ matcher_last' = [op |-> "add_track", track |-> <<track>>, before |-> tracks,
                        out |-> <<>>]
    /\ UNCHANGED <<limiterVars, storeVars, splitVars, managerVars, min_confidence, max_duplicates>>

\* TrackMatcher.get_unique_tracks()
MatcherGetUnique ==
    /\ matcher_last.op /= "get_unique_tracks"
    /\ matcher_last' = [op |-> "get_unique_tracks", track |-> <<>>, before |-> tracks,
                        out |-> GetUniqueTracks(tracks)]
    /\ UNCHANGED <<limiterVars, storeVars, splitVars, managerVars, tracks, min_confidence,
                   max_duplicates, arrivals>>

\* a TrackMatcher whose min_confidence property was set
MatcherInit ==
    /\ RateLimiterInit
    /\ max_requests_per_minute = 1
    /\ max_concurrent_requests = 1
    /\ CacheAtRest
    /\ min_confidence \in MinConfidences
    /\ EmptyMatcher
    /\ id_config = DefaultProviderConfig
    /\ ManagerAtRest
    /\ SplitAtRest

MatcherNext ==
    \/ \E track \in TrackArgs : AddTrack(track)
    \/ MatcherGetUnique

MatcherSpec == MatcherInit /\ [][MatcherNext]_vars

\* ------------------------------------------------------------ properties
\* the tasks whose admission is granted and not yet released
InFlight == {t \in Tasks : pc[t] = "granted"}

\* the tasks that hold a concurrency slot (polling for a token, or granted)
Holders == {t \in Tasks : pc[t] \in {"sleeping", "granted"}}

\* the step is an acquire call (it has not yet returned unless the circuit denied it)
IsAcquireCall == calls' = calls + 1

\* the step is _update_circuit_breaker(provider, False)
IsFailureReport == fails_since_success' = fails_since_success + 1

\* the step is _update_circuit_breaker(provider, True)
IsSuccessReport == last'.op = "report" /\ last'.res = "success" /\ last' /= last

\* C1: no more than maxRequestsPerMinute acquire calls are granted within any
\* rolling 60-second window, the window that starts at registration with a
\* full bucket included (grant_times holds the grants of the last 60 seconds)
C1_RateConservation == Len(grant_times) <= max_requests_per_minute

\* C2: while the circuit is Open and the reset timeout has not elapsed, an
\* acquire returns denied at once and leaves tokens, the free concurrency
\* slots and total_requests as they were
C2_OpenCircuitDenies ==
    [][(circuit_state = "open" /\ now - circuit_open_time <= ResetTicks /\ IsAcquireCall)
        => /\ last'.res = "denied_circuit"
           /\ now' = now
           /\ pc' = pc
           /\ tokens' = tokens
           /\ semaphore' = semaphore
           /\ total_requests' = total_requests]_vars

C2_Witness ==
    /\ last.op = "acquire"
    /\ last.res = "denied_circuit"
    /\ circuit_state = "open"
    /\ total_requests > 0

\* C3: once the reset timeout has elapsed on an Open circuit exactly one
\* acquire is admitted as the HalfOpen probe: until a success or failure is
\* reported, at most one admission issued since the circuit went HalfOpen is
\* granted
C3_SingleProbe ==
    probe_time /= None =>
        Cardinality({t \in Tasks : pc[t] = "granted" /\ start_time[t] >= probe_time}) <= 1

C5_HalfOpenFailureReopens ==
    [][(circuit_state = "half_open" /\ IsFailureReport)
        => (circuit_state' = "open" /\ circuit_open_time' = now)]_vars

\* C6: a success reported while the circuit is HalfOpen closes it and resets
\* the consecutive-failure count to zero; a closed circuit is always short of
\* the threshold by the failures not yet reported since that success
C6_HalfOpenSuccessCloses ==
    /\ [][(circuit_state = "half_open" /\ IsSuccessReport)
           => (circuit_state' = "closed" /\ consecutive_failures' = 0)]_vars
    /\ [](circuit_state = "closed" =>
              /\ consecutive_failures < circuit_threshold
              /\ consecutive_failures = fails_since_success)

C6_Witness ==
    /\ circuit_state = "closed"
    /\ circuit_trips = 1
    /\ last.op = "report"
    /\ last.res = "success"
    /\ consecutive_failures = 0

\* C7: with release called only after a granted acquire, the admissions
\* granted and not yet released never exceed maxConcurrentRequests, and every
\* slot not held is free for a waiting or later acquire
C7_ConcurrencyBound ==
    /\ Cardinality(InFlight) <= max_concurrent_requests
    /\ semaphore = max_concurrent_requests - Cardinality(Holders)

\* an acquire that waited for its slot is granted once a release freed one
C7_Witness ==
    /\ last.op = "acquire"
    /\ last.res = "granted"
    /\ token_wait_start[last.task] > start_time[last.task]
    /\ Cardinality(InFlight) = max_concurrent_requests

\* C8: an acquire that returns denied holds no concurrency slot afterwards:
\* an open-circuit or slot-timeout denial leaves the free slots as they were,
\* a token-timeout denial gives back the slot it took and appends the window
\* (token_wait_start, now) to rate_limit_windows
C8_DeniedHoldsNoSlot ==
    [][/\ \A t \in Tasks :
              (pc[t] \in {"sem_wait", "sleeping"} /\ pc'[t] = "idle") =>
                  /\ semaphore' = max_concurrent_requests - Cardinality(Holders')
                  /\ last'.res = "denied_slot" =>
                         /\ semaphore' = semaphore
                         /\ rate_limit_windows' = rate_limit_windows
                  /\ last'.res = "denied_tokens" =>
                         /\ pc[t] = "sleeping" => semaphore' = semaphore + 1
                         /\ rate_limit_windows' =
                                Append(rate_limit_windows, <<token_wait_start'[t], now>>)
       /\ (IsAcquireCall /\ last'.res = "denied_circuit") =>
              /\ semaphore' = semaphore
              /\ pc' = pc
              /\ rate_limit_windows' = rate_limit_windows]_vars

C8_Witness ==
    /\ last.op = "acquire"
    /\ last.res = "denied_tokens"
    /\ Len(rate_limit_windows) > 0
    /\ rate_limit_windows[Len(rate_limit_windows)][2] = now
    /\ semaphore = max_concurrent_requests - Cardinality(Holders)

\* C9: every acquire call that the open circuit does not reject adds exactly
\* one to total_requests, however it ends: the calls that have returned are
\* all counted, the calls still waiting for a slot may not be counted yet
C9_EveryAttemptCounted ==
    LET passed == calls - circuit_denials
        waiting == Cardinality({t \in Tasks : pc[t] = "sem_wait"})
    IN  /\ total_requests <= passed
        /\ total_requests >= passed - waiting

\* C10: acquire(provider, timeout) returns no later than timeout after the
\* call, up to one polling interval
C10_ReturnsWithinTimeout ==
    (last.op = "acquire" /\ last.res \in {"granted", "denied_circuit", "denied_slot", "denied_tokens"})
        => last.elapsed <= last.timeout + PollInterval

\* a step of BaseCache.get that returned (a value or None)
IsGet ==
    /\ cache_ops' = cache_ops + 1
    /\ cache_last'.op = "get"
    /\ cache_last'.res /= "TypeError"

ReadableAs(f, k) ==
    /\ files[f].kind = "bytes"
    /\ files[f].zlib => files[f].intact
    /\ files[f].parses
    /\ files[f].obj.key = k
    /\ k /= ""

\* C13: crash recovery.  The first use of a storage whose index file is
\* missing or unparseable loads an index that has, for every non-empty key k,
\* an entry exactly if a readable file carries k, and that entry names the
\* file; corrupt files in the directory do not prevent this.
C13_RebuildExact ==
    [][(~index_loaded /\ cache_last'.op = "list_keys" /\ cache_ops' = cache_ops + 1) =>
          /\ index_loaded'
          /\ \A k \in CacheKeys \ {""} :
                 IF \E f \in FileNames : ReadableAs(f, k)
                 THEN index'[k].kind = "idx" /\ ReadableAs(index'[k].filename, k)
                 ELSE index'[k].kind = "none"]_vars

\* C14: restart.  After a restart, a get(k) of a non-empty key k returns the
\* value that the previous process set last under k, unless the entry was
\* deleted, cleared, cleaned up or invalidated in between.
C14_SurvivesRestart ==
    [][IsGet =>
          LET k == cache_last'.key
          IN  (k /= "" /\ expected[k].restarted /\ ExpectedValid(k))
                  => cache_last'.res = expected[k].value]_vars

\* C17: a get that finds an entry which the strategy reports invalid leaves
\* neither the file nor the index record, adds exactly one to the
\* invalidation counter, counts no hit and returns None.
C17_InvalidGet ==
    [][(IsGet /\ cache_last'.found /\ ~cache_last'.valid) =>
          LET k == cache_last'.key
          IN  /\ cache_last'.res = Absent
              /\ files'[Hash(k)] = NoFile
              /\ index'[k] = NoIdx
              /\ stats'.invalidations = stats.invalidations + 1
              /\ stats'.hits = stats.hits]_vars

\* C18: after cleanup(max_age) no index entry was last accessed more than
\* max_age seconds ago, every file of the directory has an index entry and
\* the file of every index entry exists.
C18_CleanupReconciles ==
    [][(cache_ops' = cache_ops + 1 /\ cache_last'.op = "cleanup"
            /\ cache_last'.res /= "error") =>
          /\ \A k \in CacheKeys :
                 index'[k].kind = "idx" =>
                     /\ clock - index'[k].last_accessed
                            <= cache_last'.max_age * MsPerSecond
                     /\ files'[index'[k].filename].kind = "bytes"
          /\ \A f \in FileNames :
                 files'[f].kind = "bytes" =>
                     \E k \in CacheKeys :
                         index'[k].kind = "idx" /\ index'[k].filename = f]_vars

\* C19: under the LRU strategy with window max_age a get of a stored entry
\* returns the value and stamps the stored entry with the clock if the entry
\* was last set or read less than max_age seconds ago, and returns None
\* otherwise.
C19_LruWindow ==
    [][(IsGet /\ strategy.kind = "lru") =>
          LET k == cache_last'.key
              e == expected[k]
          IN  e.value /= Absent =>
                  IF clock - e.accessed < strategy.param * MsPerSecond
                  THEN /\ cache_last'.res = e.value
                       /\ files'[Hash(k)].kind = "bytes"
                       /\ files'[Hash(k)].obj.last_accessed = clock
                  ELSE cache_last'.res = Absent]_vars

\* C20: a get with the empty key fails with an invalid-key error, a get or set
\* with a key that is no string raises a type error; either way the files,
\* the index and the hit and miss counters stay as they were.
C20_BadKeyRejected ==
    [][(cache_ops' = cache_ops + 1 /\ cache_last'.op \in {"get", "set"}) =>
          /\ ~cache_last'.isstr =>
                 /\ cache_last'.res = "TypeError"
                 /\ UNCHANGED <<files, index, stats>>
          /\ (cache_last'.op = "get" /\ cache_last'.isstr /\ cache_last'.key = "") =>
                 /\ cache_last'.res = "InvalidKey"
                 /\ UNCHANGED <<files, index, stats>>]_vars

\* every call of every task has returned
AllReturned == \A t \in StorageTasks : cache_tasks[t].pc = "idle"

\* C15: once all concurrent get, set and delete calls have returned, the file
\* of every index entry exists and every file has an index entry.
C15_IndexMatchesFiles ==
    AllReturned =>
        /\ \A k \in CacheKeys :
               index[k].kind = "idx" => files[index[k].filename].kind = "bytes"
        /\ \A f \in FileNames :
               files[f].kind = "bytes" =>
                   \E k \in CacheKeys : index[k].kind = "idx" /\ index[k].filename = f

\* the tasks that have created the temp file of key k and not yet renamed it
Writers(k) ==
    {t \in StorageTasks : /\ cache_tasks[t].key = k
                          /\ cache_tasks[t].pc \in {"set_write", "set_close"}}

TypeOK ==
    /\ now \in T0..MaxTime
    /\ tokens \in 0..max_requests_per_minute
    /\ circuit_state \in {"closed", "open", "half_open"}
    /\ pc \in [Tasks -> {"idle", "sem_wait", "sleeping", "granted"}]

\* --------------------------------------------- track matcher: merging
\* bound: tracks assigned to TrackMatcher.tracks before merge_nearby_tracks
MaxMergeTracks == 3

\* the lists assigned to TrackMatcher.tracks, as the tests of
\* merge_nearby_tracks do
TrackLists == UNION {[1..n -> TrackArgs] : n \in 0..MaxMergeTracks}

\* the values of max_duplicates: the default and the one
\* test_max_duplicates_limit sets
MaxDuplicatesArgs == {max_duplicates_default, max_duplicates_default + 1}

\* TrackMatcher._should_add_to_group
ShouldAddToGroup(current_group, track, md) ==
    LET last_track == current_group[Len(current_group)]
        time_diff == TimeToSeconds(track.time_in_mix)
                         - TimeToSeconds(last_track.time_in_mix)
    IN  /\ time_diff <= time_threshold
        /\ IsSimilarTo(track, last_track)
        /\ Len(current_group) < md

\* a check that lets every track pass
IsUniqueTrack_Always(track, merged_tracks) == TRUE

\* TrackMatcher._is_unique_track
IsUniqueTrack(track, merged_tracks) ==
    ~\E i \in 1..Len(merged_tracks) : IsSimilarTo(track, merged_tracks[i])

\* merge_nearby_tracks: the best track of a finished group goes to the merged
\* list when no track there is similar to it (_get_best_track is the max() of
\* add_track)
CloseGroup(merged, current_group) ==
    IF current_group /= <<>> /\ IsUniqueTrack(BestTrack(current_group), merged)
    THEN Append(merged, BestTrack(current_group))
    ELSE merged

\* merge_nearby_tracks: the loop over self.tracks[1:] and the last group
RECURSIVE MergeLoop(_, _, _, _)
MergeLoop(merged, current_group, rest, md) ==
    IF rest = <<>>
    THEN CloseGroup(merged, current_group)
    ELSE IF ShouldAddToGroup(current_group, Head(rest), md)
         THEN MergeLoop(merged, Append(current_group, Head(rest)), Tail(rest), md)
         ELSE MergeLoop(CloseGroup(merged, current_group), <<Head(rest)>>, Tail(rest), md)

\* TrackMatcher.merge_nearby_tracks: the list returned for the working set ws
MergeNearbyTracks(ws, md) ==
    IF ws = <<>>
    THEN <<>>
    ELSE MergeLoop(<<>>, <<SortByTime(ws)[1]>>, Tail(SortByTime(ws)), md)

\* "track_matcher.tracks = [...]" and "track_matcher.max_duplicates = ..." of
\* the tests, on a new TrackMatcher
AssignTracks(q, md) ==
    /\ matcher_last.op = "init"
    /\ tracks' = q
    /\ max_duplicates' = md
    /\ matcher_last' = [op |-> "assign", track |-> <<>>, before |-> tracks, out |-> <<>>]
    /\ UNCHANGED <<limiterVars, storeVars, splitVars, managerVars, min_confidence, arrivals>>

\* TrackMatcher.merge_nearby_tracks(): sorts self.tracks in place
MatcherMerge ==
    /\ matcher_last.op = "assign"
    /\ tracks' = SortByTime(tracks)
    /\ matcher_last' = [op |-> "merge_nearby_tracks", track |-> <<>>, before |-> tracks,
                        out |-> MergeNearbyTracks(tracks, max_duplicates)]
    /\ UNCHANGED <<limiterVars, storeVars, splitVars, managerVars, min_confidence, max_duplicates,
                   arrivals>>

\* a new TrackMatcher, as the track_matcher fixture makes it
MergeInit ==
    /\ RateLimiterInit
    /\ max_requests_per_minute = 1
    /\ max_concurrent_requests = 1
    /\ CacheAtRest
    /\ PipelineAtRest

\* the lists are enumerated on the new matcher only
MergeNext ==
    \/ /\ matcher_last.op = "init"
       /\ \E q \in TrackLists, md \in MaxDuplicatesArgs : AssignTracks(q, md)
    \/ MatcherMerge

MergeSpec == MergeInit /\ [][MergeNext]_vars

\* ------------------------------------------- identification manager: data
\* bound: identify_tracks calls made on the manager
MaxIdentifyCalls == 2

\* bound: segments handed to identify_tracks, over all calls
MaxProviderCalls == 3

\* the segments of the mix, in the order split_audio yields them; a segment
\* is its start_time in seconds
AllSegments == <<40, 60, 80>>

\* the segment lists handed to identify_tracks: runs of consecutive segments
SegmentLists ==
    {SubSeq(AllSegments, a, b) : a \in 1..Len(AllSegments), b \in 0..Len(AllSegments)}

\* the provider settings of the runs: the defaults, and a fallback list
ProviderConfigs == {DefaultProviderConfig, ProviderConfig(TRUE, <<"acrcloud">>)}

\* what provider.identify_track does: raise, return None, or return a
\* response whose metadata.music list holds one dict; a dict field is <<>>
\* when the key is missing and <<value>> otherwise
ProviderResult(kind, title, artist, score) ==
    [kind |-> kind, title |-> title, artist |-> artist, score |-> score]

Raises == ProviderResult("raises", <<>>, <<>>, <<>>)

ReturnsNone == ProviderResult("None", <<>>, <<>>, <<>>)

\* {"metadata": {"music": [{}]}}
EmptyMetadata == ProviderResult("music", <<>>, <<>>, <<>>)

Music(title, artist, score) == ProviderResult("music", title, artist, score)

ProviderResults ==
    {Raises, ReturnsNone, EmptyMetadata,
     Music(<<"Song ">>, <<"Artist">>, <<50>>),
     Music(<<"Song ">>, <<"Artist">>, <<>>),
     Music(<<>>, <<"Artist">>, <<50>>),
     Music(<<"">>, <<"Artist">>, <<50>>),
     Music(<<"Song ">>, <<"">>, <<50>>),
     Music(<<"Song ">>, <<"Artist">>, <<150>>)}

\* dict.get(key, default)
DictGet(field, default) == IF field = <<>> THEN default ELSE field[1]

\* str.strip()
Strip(s) ==
    CASE s = "Song " -> "Song"
      [] OTHER -> s

\* format_seconds_to_hhmmss
FormatSeconds(seconds) ==
    <<seconds \div 3600, (seconds % 3600) \div 60, seconds % 60>>

\* re.match(r"^\d{2}:\d{2}:\d{2}$", time_in_mix) on the formatted time: a
\* part of three digits does not match
TimeFormatOk(tm) == \A i \in 1..3 : tm[i] >= 0 /\ tm[i] <= 99

ValueError == [error |-> "ValueError"]

\* a constructor without validation
TrackInit_Unchecked(song_name, artist, time_in_mix, confidence) ==
    Track(Strip(song_name), Strip(artist), time_in_mix, confidence)

\* Track.__init__: the validation, then the stripped fields
TrackInit(song_name, artist, time_in_mix, confidence) ==
    IF Strip(song_name) = "" THEN ValueError
    ELSE IF Strip(artist) = "" THEN ValueError
    ELSE IF ~TimeFormatOk(time_in_mix) THEN ValueError
    ELSE IF confidence < 0 \/ confidence > 100 THEN ValueError
    ELSE Track(Strip(song_name), Strip(artist), time_in_mix, confidence)

\* identify_tracks, lines 59 to 82: the Track built from the provider's result
\* for a segment, ValueError when Track() raises, and <<>> when the loop
\* continues before it builds one
SegmentTrack(segment, track_info) ==
    IF track_info.kind /= "music" THEN <<>>
    ELSE IF track_info = EmptyMetadata THEN <<>>
    ELSE TrackInit(DictGet(track_info.title, "Unknown Title"),
                   DictGet(track_info.artist, "Unknown Artist"),
                   FormatSeconds(segment),
                   DictGet(track_info.score, 100))

\* ---------------------------------------- identification manager: actions
\* identify_tracks(audio_segments) up to the loop: the primary provider is
\* looked up and identified_tracks is empty
IdentifyTracks(audio_segments) ==
    /\ id_call.state = "idle"
    /\ Len(id_results) < MaxIdentifyCalls
    /\ Len(provider_calls) + Len(audio_segments) <= MaxProviderCalls
    /\ id_call' = [state |-> "running", provider |-> id_config.primary_provider,
                   segments |-> audio_segments, pos |-> 1,
                   identified_tracks |-> <<>>, before |-> tracks]
    /\ UNCHANGED <<limiterVars, storeVars, splitVars, matcherVars, id_config, provider_calls,
                   id_results, id_last>>

\* one pass of the loop of identify_tracks: the provider is called for the
\* next segment and answers with track_info
IdentifySegment(track_info) ==
    /\ id_call.state = "running"
    /\ id_call.pos <= Len(id_call.segments)
    /\ LET segment == id_call.segments[id_call.pos]
           track == SegmentTrack(segment, track_info)
       IN  /\ provider_calls' =
                  Append(provider_calls,
                         [provider |-> id_call.provider, segment |-> segment,
                          call |-> Len(id_results) + 1, result |-> track_info])
           /\ id_last' = [segment |-> <<segment>>, result |-> <<track_info>>,
                          before |-> tracks]
           /\ IF track = <<>> \/ track = ValueError
              THEN /\ id_call' = [id_call EXCEPT !.pos = @ + 1]
                   /\ UNCHANGED matcherVars
              ELSE /\ tracks' = AddTrackTo(tracks, min_confidence, track)
                   /\ arrivals' = Append(arrivals, track)
                   /\ matcher_last' = [op |-> "add_track", track |-> <<track>>,
                                       before |-> tracks, out |-> <<>>]
                   /\ id_call' = [id_call EXCEPT
                                      !.pos = @ + 1,
                                      !.identified_tracks = Append(@, track)]
                   /\ UNCHANGED <<min_confidence, max_duplicates>>
    /\ UNCHANGED <<limiterVars, storeVars, splitVars, id_config, id_results>>

\* identify_tracks after the loop: get_unique_tracks and return
IdentifyReturn ==
    /\ id_call.state = "running"
    /\ id_call.pos > Len(id_call.segments)
    /\ id_results' = Append(id_results,
                            [segments |-> id_call.segments, before |-> id_call.before,
                             out |-> GetUniqueTracks(tracks)])
    /\ matcher_last' = [op |-> "get_unique_tracks", track |-> <<>>, before |-> tracks,
                        out |-> GetUniqueTracks(tracks)]
    /\ id_call' = NoCall
    /\ UNCHANGED <<limiterVars, storeVars, splitVars, tracks, min_confidence, max_duplicates,
                   arrivals, id_config,
                   provider_calls, id_last>>

\* an IdentificationManager over a configuration, the rate limiter and the
\* cache of the process untouched
IdentifyInit ==
    /\ RateLimiterInit
    /\ max_requests_per_minute = 1
    /\ max_concurrent_requests = 1
    /\ CacheAtRest
    /\ min_confidence = 0
    /\ EmptyMatcher
    /\ id_config \in ProviderConfigs
    /\ ManagerAtRest
    /\ SplitAtRest

IdentifyNext ==
    \/ \E audio_segments \in SegmentLists : IdentifyTracks(audio_segments)
    \/ \E track_info \in ProviderResults : IdentifySegment(track_info)
    \/ IdentifyReturn

IdentifySpec == IdentifyInit /\ [][IdentifyNext]_vars

\* ------------------------------------------------------------ split_audio
\* bound: iterations of the segment-parameter loop that are followed
MaxSegments == 13

\* times of split_audio are counted in half seconds: the padding is 0.5 s
HalvesPerSecond == 2

\* "current_time - 0.5", "current_time + segment_length + 0.5", in half seconds
PADDING == 1

\* add_range_rule("segment_length", 10, 300)
segment_length_min == 10

segment_length_max == 300

\* add_range_rule("overlap_duration", 0, 30)
overlap_duration_min == 0

overlap_duration_max == 30

\* _validate: the range rules of segment_length and overlap_duration
Validated(sl, ov) ==
    /\ sl \in segment_length_min..segment_length_max
    /\ ov \in overlap_duration_min..overlap_duration_max

\* the settings of the runs: the shortest segment and the 30 s of
\* test_split_audio_segment_parameters, with no overlap, the 5 s of the test,
\* the default and the longest overlap
SplitConfigs ==
    {c \in {segment_length_min, 30}
            \X {overlap_duration_min, 5, overlap_duration_default, overlap_duration_max} :
        Validated(c[1], c[2])}

\* audio.info.length of the files, in half seconds: 0.5 s, 59.5 s and the 60 s
\* of the test
SplitDurations == {1, 119, 120}

\* "step = segment_duration - overlap_duration", in half seconds
Step(sl, ov) == (sl - ov) * HalvesPerSecond

\* the entry appended to segment_params for the segment at time ct
SegmentParams(ct, d, sl) ==
    LET length == Min(sl * HalvesPerSecond, d - ct)
        padded_start == Max(0, ct - PADDING)
        end_time == Min(d, ct + length + PADDING)
    IN  [start_time |-> ct, length |-> length, ss |-> padded_start,
         t |-> end_time - padded_start]

\* split_audio(file_path) up to the loop: the duration is read
SplitAudio(d) ==
    /\ split_pc = "idle"
    /\ split_pc' = "loop"
    /\ duration' = d
    /\ current_time' = 0
    /\ segment_params' = <<>>
    /\ UNCHANGED <<limiterVars, storeVars, matcherVars, managerVars, segment_length,
                   overlap_duration>>

\* one pass of "while current_time < duration"
SplitIteration ==
    /\ split_pc = "loop"
    /\ current_time < duration
    /\ Len(segment_params) < MaxSegments
    /\ segment_params' = Append(segment_params,
                                SegmentParams(current_time, duration, segment_length))
    /\ current_time' = current_time + Step(segment_length, overlap_duration)
    /\ UNCHANGED <<limiterVars, storeVars, matcherVars, managerVars, segment_length,
                   overlap_duration, split_pc, duration>>

\* the loop test fails: the parameters go to create_segment
SplitLoopExit ==
    /\ split_pc = "loop"
    /\ ~(current_time < duration)
    /\ split_pc' = "done"
    /\ UNCHANGED <<limiterVars, storeVars, matcherVars, managerVars, segment_length,
                   overlap_duration, duration, current_time, segment_params>>

\* an application with a validated configuration, split_audio not called
SplitInit ==
    /\ RateLimiterInit
    /\ max_requests_per_minute = 1
    /\ max_concurrent_requests = 1
    /\ CacheAtRest
    /\ min_confidence = 0
    /\ EmptyMatcher
    /\ id_config = DefaultProviderConfig
    /\ ManagerAtRest
    /\ \E c \in SplitConfigs : segment_length = c[1] /\ overlap_duration = c[2]
    /\ NotSplitting

SplitNext ==
    \/ \E d \in SplitDurations : SplitAudio(d)
    \/ SplitIteration
    \/ SplitLoopExit

SplitSpec == SplitInit /\ [][SplitNext]_vars

\* the loop is a plain while loop of one thread: it goes on until its test fails
SplitLiveSpec == SplitSpec /\ WF_vars(SplitIteration) /\ WF_vars(SplitLoopExit)

\* ------------------------------------------------- track matcher: claims
\* C21: adding a track and then adding an identical track leaves the working
\* set exactly as it was after the first add
C21_AddIdempotent ==
    [][(/\ matcher_last.op = "add_track"
        /\ matcher_last'.op = "add_track"
        /\ matcher_last'.track = matcher_last.track) => tracks' = tracks]_vars

\* the same track was added twice in a row and is in the working set
C21_Witness ==
    /\ matcher_last.op = "add_track"
    /\ Len(arrivals) >= 2
    /\ arrivals[Len(arrivals)] = arrivals[Len(arrivals) - 1]
    /\ \E i \in 1..Len(tracks) : tracks[i] = arrivals[Len(arrivals)]

\* the tracks of a list, as a set
Elements(q) == {q[i] : i \in 1..Len(q)}

FoundNeighbours(t) ==
    /\ arrivals' = Append(arrivals, t)
    /\ t.confidence >= min_confidence
    /\ SimilarTracks(tracks, t) /= <<>>

\* the tracks of q that are not neighbours of t, in list order
NonNeighbours(q, t) ==
    SelectSeq(q, LAMBDA e : e \notin Elements(SimilarTracks(tracks, t)))

SameArtistTitle(q, t) == {e \in Elements(q) : TrackKey(e) = TrackKey(t)}

RECURSIVE AddAll(_, _, _)
AddAll(ws, minc, q) ==
    IF q = <<>> THEN ws ELSE AddAll(AddTrackTo(ws, minc, Head(q)), minc, Tail(q))

\* the orders in which the tracks of q can be handed to add_track
Reorderings(q) ==
    {[i \in 1..Len(q) |-> q[p[i]]] :
         p \in {f \in [1..Len(q) -> 1..Len(q)] :
                    \A i, j \in 1..Len(q) : i /= j => f[i] /= f[j]}}

\* C26: for a set of tracks, the list get_unique_tracks returns after adding
\* them is the same for every order of the add_track calls
C26_OrderIndependent ==
    (Cardinality(Elements(arrivals)) = Len(arrivals))
    => \A q \in Reorderings(arrivals) :
           GetUniqueTracks(AddAll(<<>>, min_confidence, q)) = GetUniqueTracks(tracks)

\* ---------------------------------------- identification manager: claims
\* the provider raised, found no match, or returned a candidate with an empty
\* title or artist or a confidence outside 0..100
SegmentFailed(r) ==
    \/ r.kind \in {"raises", "None"}
    \/ r = EmptyMetadata
    \/ r.title = <<"">>
    \/ r.artist = <<"">>
    \/ (r.score /= <<>> /\ (r.score[1] < 0 \/ r.score[1] > 100))

\* the provider calls of the n-th identify_tracks call
CallsOf(n) == SelectSeq(provider_calls, LAMBDA c : c.call = n)

\* the tracks of a list of provider calls that did not fail, in call order
RECURSIVE GoodTracks(_)
GoodTracks(cs) ==
    IF cs = <<>> THEN <<>>
    ELSE IF SegmentFailed(Head(cs).result) THEN GoodTracks(Tail(cs))
    ELSE <<SegmentTrack(Head(cs).segment, Head(cs).result)>> \o GoodTracks(Tail(cs))

\* C27: a segment for which the provider raises, returns no match or returns
\* a candidate that Track() rejects leaves the working set unchanged and the
\* loop goes on to the next segment; the call returns after the provider was
\* asked for every segment, with the deduplicated list of the working set it
\* started from and the tracks of the segments that did not fail
C27_FailureIsolated ==
    /\ (id_last.result /= <<>> /\ SegmentFailed(id_last.result[1]))
       => tracks = id_last.before
    /\ id_call.state = "running"
       => LET cs == CallsOf(Len(id_results) + 1)
          IN  /\ id_call.pos = Len(cs) + 1
              /\ [i \in 1..Len(cs) |-> cs[i].segment]
                     = SubSeq(id_call.segments, 1, Len(cs))
    /\ \A n \in 1..Len(id_results) :
           LET cs == CallsOf(n)
           IN  /\ [i \in 1..Len(cs) |-> cs[i].segment] = id_results[n].segments
               /\ id_results[n].out =
                      GetUniqueTracks(AddAll(id_results[n].before, min_confidence,
                                             GoodTracks(cs)))

\* a call returned in which a segment failed and a later segment gave a
\* track, which is in the returned list
C27_Witness ==
    /\ id_call.state = "idle"
    /\ id_results /= <<>>
    /\ LET n == Len(id_results)
           cs == CallsOf(n)
       IN  \E i, j \in 1..Len(cs) :
               /\ i < j
               /\ SegmentFailed(cs[i].result)
               /\ cs[i].result.kind = "music"
               /\ ~SegmentFailed(cs[j].result)
               /\ SegmentTrack(cs[j].segment, cs[j].result) \in Elements(id_results[n].out)

\* C28: a segment the provider has identified is answered from the cache from
\* then on: the provider is not called for it again, in that call or in a
\* later call over the same segments
C28_CachedSegmentNotCalled ==
    \A i, j \in 1..Len(provider_calls) :
        (i < j /\ provider_calls[i].segment = provider_calls[j].segment)
        => SegmentFailed(provider_calls[i].result)

\* C29: a provider call is made only while a granted acquire holds a slot of
\* the rate limiter for it
C29_CallUnderGrant ==
    [][Len(provider_calls') > Len(provider_calls)
       => \E t \in Tasks : pc[t] = "granted"]_vars

\* C30: with a fallback list configured, a segment for which the primary
\* provider raised or returned nothing is handed to the first fallback
\* provider next, before any other segment and before the call returns
C30_FallbackInOrder ==
    [][(/\ provider_calls /= <<>>
        /\ id_config.fallback_enabled
        /\ id_config.fallback_providers /= <<>>
        /\ LET c == provider_calls[Len(provider_calls)]
           IN  /\ c.provider = id_config.primary_provider
               /\ c.result.kind \in {"raises", "None"})
       => /\ id_results' = id_results
          /\ Len(provider_calls') > Len(provider_calls)
             => LET c == provider_calls[Len(provider_calls)]
                    d == provider_calls'[Len(provider_calls')]
                IN  /\ d.segment = c.segment
                    /\ d.provider = id_config.fallback_providers[1]]_vars

\* ------------------------------------------------------ merging: claims
\* the time of the i-th track of the list merge_nearby_tracks was called on
MergedTime(i) == TimeToSeconds(matcher_last.before[i].time_in_mix)

\* C31: of several similar tracks of the working set, each within
\* time_threshold of the previous one in time order, merge_nearby_tracks
\* returns the one of highest confidence
C31_ClusterBestKept ==
    matcher_last.op = "merge_nearby_tracks" =>
        LET before == matcher_last.before
            out == matcher_last.out
            earlier(j, i) == MergedTime(j) < MergedTime(i)
                                 \/ (MergedTime(j) = MergedTime(i) /\ j < i)
        IN  \A S \in SUBSET (1..Len(before)) :
                (/\ Cardinality(S) >= 2
                 /\ \A i, j \in S : IsSimilarTo(before[i], before[j])
                 /\ \A i \in S :
                        \/ \A j \in S \ {i} : earlier(i, j)
                        \/ \E j \in S : /\ earlier(j, i)
                                        /\ MergedTime(i) - MergedTime(j) <= time_threshold)
                => \E k \in 1..Len(out) :
                       /\ \E i \in S : out[k] = before[i]
                       /\ \A i \in S : before[i].confidence <= out[k].confidence

\* the track t of the working set ws belongs to the earliest run of the tracks
\* similar to it: no gap of more than time_threshold separates the similar
\* tracks up to t in time order
InEarliestGroup(ws, t) ==
    LET class == {e \in Elements(ws) : IsSimilarTo(e, t)}
        time(e) == TimeToSeconds(e.time_in_mix)
    IN  \A e \in class :
            time(e) <= time(t) =>
                \/ \A f \in class : time(e) <= time(f)
                \/ \E f \in class : time(f) < time(e) /\ time(e) - time(f) <= time_threshold

C33_NoCreditLost ==
    (/\ last.op = "acquire"
     /\ last.res \in {"granted", "polling"}
     /\ ~refilled.capped)
    => refilled.added >=
           ((now - T0) * max_requests_per_minute) \div (SecondsPerMinute * TicksPerSecond) - 1


CallsOn(o, k) ==
    {t \in StorageTasks : cache_tasks[t].op = o /\ cache_tasks[t].key = k}

\* C36: once every call has returned, each task having made one call, a get
\* of a key that was set and never deleted returns the value of the set called
\* last, or None, and not an older value that a concurrent get wrote back
C36_NoStaleWriteBack ==
    (/\ AllReturned
     /\ task_calls = Cardinality({t \in StorageTasks : cache_tasks[t].op /= "none"}))
    => \A k \in CacheKeys :
           (CallsOn("set", k) /= {} /\ CallsOn("delete", k) = {}) =>
               LET l == CHOOSE t \in CallsOn("set", k) :
                            \A u \in CallsOn("set", k) :
                                cache_tasks[u].entry.created <= cache_tasks[t].entry.created
               IN  BaseGet([Store EXCEPT !.loaded = TRUE], strategy, stats, k, clock + 1).res
                       \in {cache_tasks[l].entry.value, Absent}


\* C37: whatever acquire and release calls are made, releases that follow no
\* granted acquire included, the free concurrency slots never exceed
\* max_concurrent_requests
C37_SlotsBounded == semaphore <= max_concurrent_requests

\* C38: register_provider for the registered provider leaves the circuit
\* state, the consecutive failures and the metrics as they were, and the free
\* slots still account for the admissions granted and not yet released
C38_ReRegisterKeeps ==
    [][last'.op = "register_provider" =>
          /\ UNCHANGED <<circuit_state, circuit_open_time, consecutive_failures>>
          /\ UNCHANGED <<total_requests, rate_limited_requests, total_wait_time,
                         last_rate_limit, rate_limit_windows, circuit_trips,
                         last_circuit_trip>>
          /\ semaphore' = max_concurrent_requests' - Cardinality(Holders)]_vars


\* ------------------------------------------- identification manager: more
\* C39: the list a call of identify_tracks returns is the deduplicated list of
\* the tracks of that call's own segments: tracks of earlier calls are not in
\* it and do not replace or suppress the tracks of the call
C39_CallsIndependent ==
    \A n \in 1..Len(id_results) :
        id_results[n].out =
            GetUniqueTracks(AddAll(<<>>, min_confidence, GoodTracks(CallsOf(n))))


\* --------------------------------------------------------- split_audio: claims
\* C40: with a validated configuration the start time of the segments grows
\* on every pass of the parameter loop, and the loop ends whatever the
\* duration of the file
C40_SplitTerminates ==
    /\ [][(split_pc = "loop" /\ segment_params' /= segment_params)
              => current_time' > current_time]_vars
    /\ (split_pc = "loop") ~> (split_pc = "done")

====
